---------------------------- MODULE Spec2Model ----------------------------
(***************************************************************************)
(* Candidate-Evaluation: the scoring engine of candidate_ranking_tool.py.  *)
(*                                                                         *)
(* Python strings are sequences of one-character strings, so that lower(), *)
(* split() and the `in` substring test are computed character by character.*)
(* Python floats are carried as exact fractions [n |-> numerator,          *)
(* d |-> denominator] in lowest terms: 0.7 is 7/10.  Rounding of IEEE      *)
(* doubles is not modelled.                                                *)
(***************************************************************************)
EXTENDS Integers, Sequences, FiniteSets, TLC

VARIABLES candidates, job_descriptions, call, ret, threads, documents,
          outbox, app

vars == <<candidates, job_descriptions, call, ret, threads, documents, outbox,
          app>>

---------------------------------------------------------------------------
(* Bounds of the model. *)

MaxCands == 3
MaxCandidateSkills == 1
MaxRequired == 2
MaxPreferred == 1
MaxYears == 5
MaxEduWords == 2
MaxRequirementWords == 1
MaxRoles == 2
MaxThreads == 2
MaxCalls == 2
MaxConcCands == 2
MaxLines == 2
MaxFiles == 3
MaxTopN == 9
MaxRequests == 2

---------------------------------------------------------------------------
(* Float arithmetic as exact fractions. *)

RECURSIVE GCD(_, _)
GCD(a, b) ==
    IF b = 0 THEN a ELSE GCD(b, a % b)

Abs(i) ==
    IF i < 0 THEN -i ELSE i

Frac(num, den) ==
    LET g == GCD(Abs(num), den)
    IN  [n |-> num \div g, d |-> den \div g]

FromInt(i) ==
    [n |-> i, d |-> 1]

FAdd(a, b) ==
    Frac(a.n * b.d + b.n * a.d, a.d * b.d)

FSub(a, b) ==
    Frac(a.n * b.d - b.n * a.d, a.d * b.d)

FMul(a, b) ==
    Frac(a.n * b.n, a.d * b.d)

FLe(a, b) ==
    a.n * b.d <= b.n * a.d

FMin(a, b) ==
    IF FLe(b, a) THEN b ELSE a

FMax(a, b) ==
    IF FLe(a, b) THEN b ELSE a

---------------------------------------------------------------------------
(* Python str methods. *)

ascii_uppercase ==
    <<"A","B","C","D","E","F","G","H","I","J","K","L","M","N","O","P","Q","R","S","T","U","V","W","X","Y","Z">>

ascii_lowercase ==
    <<"a","b","c","d","e","f","g","h","i","j","k","l","m","n","o","p","q","r","s","t","u","v","w","x","y","z">>

whitespace ==
    {" ", "\t", "\n", "\r", "\f"}

lower_char(c) ==
    IF \E i \in 1..26 : ascii_uppercase[i] = c
    THEN ascii_lowercase[CHOOSE i \in 1..26 : ascii_uppercase[i] = c]
    ELSE c

lower(s) ==
    [i \in 1..Len(s) |-> lower_char(s[i])]

(* `sub in s` for two strings *)
str_in(sub, s) ==
    \E i \in 0..(Len(s) - Len(sub)) : SubSeq(s, i + 1, i + Len(sub)) = sub

(* `x in lst` for a list *)
list_in(x, lst) ==
    \E i \in 1..Len(lst) : lst[i] = x

(* the indices 1..n in order *)
indices(n) ==
    [i \in 1..n |-> i]

(* str.split(): the maximal runs of non-whitespace characters, in order;
   the k-th run goes from the k-th index that starts a run to the k-th index
   that ends one *)
split(s) ==
    LET starts == SelectSeq(indices(Len(s)),
                            LAMBDA i : /\ s[i] \notin whitespace
                                       /\ (i = 1 \/ s[i - 1] \in whitespace))
        ends == SelectSeq(indices(Len(s)),
                          LAMBDA i : /\ s[i] \notin whitespace
                                     /\ (i = Len(s) \/ s[i + 1] \in whitespace))
    IN  [k \in 1..Len(starts) |-> SubSeq(s, starts[k], ends[k])]

---------------------------------------------------------------------------
(* candidate_data.py: the sample tables (the fields the ranker reads). *)

CANDIDATES ==
    << [id |-> 1,
        skills |-> << <<"P","y","t","h","o","n">>, <<"M","a","c","h","i","n","e"," ","L","e","a","r","n","i","n","g">>, <<"D","a","t","a"," ","S","c","i","e","n","c","e">>,
                      <<"S","Q","L">>, <<"T","e","n","s","o","r","F","l","o","w">>, <<"P","a","n","d","a","s">>, <<"N","u","m","P","y">> >>,
        experience_years |-> 5,
        education |-> <<"M","S"," ","C","o","m","p","u","t","e","r"," ","S","c","i","e","n","c","e">>,
        previous_roles |-> << <<"D","a","t","a"," ","S","c","i","e","n","t","i","s","t">>, <<"M","L"," ","E","n","g","i","n","e","e","r">> >>],
       [id |-> 2,
        skills |-> << <<"J","a","v","a","S","c","r","i","p","t">>, <<"R","e","a","c","t">>, <<"N","o","d","e",".","j","s">>, <<"M","o","n","g","o","D","B">>,
                      <<"H","T","M","L">>, <<"C","S","S">>, <<"G","i","t">> >>,
        experience_years |-> 3,
        education |-> <<"B","S"," ","C","o","m","p","u","t","e","r"," ","S","c","i","e","n","c","e">>,
        previous_roles |-> << <<"F","r","o","n","t","e","n","d"," ","D","e","v","e","l","o","p","e","r">>,
                              <<"F","u","l","l"," ","S","t","a","c","k"," ","D","e","v","e","l","o","p","e","r">> >>],
       [id |-> 3,
        skills |-> << <<"J","a","v","a">>, <<"S","p","r","i","n","g"," ","B","o","o","t">>, <<"M","i","c","r","o","s","e","r","v","i","c","e","s">>,
                      <<"D","o","c","k","e","r">>, <<"K","u","b","e","r","n","e","t","e","s">>, <<"A","W","S">>, <<"P","o","s","t","g","r","e","S","Q","L">> >>,
        experience_years |-> 7,
        education |-> <<"B","S"," ","S","o","f","t","w","a","r","e"," ","E","n","g","i","n","e","e","r","i","n","g">>,
        previous_roles |-> << <<"B","a","c","k","e","n","d"," ","D","e","v","e","l","o","p","e","r">>, <<"S","y","s","t","e","m"," ","A","r","c","h","i","t","e","c","t">>,
                              <<"D","e","v","O","p","s"," ","E","n","g","i","n","e","e","r">> >>],
       [id |-> 4,
        skills |-> << <<"P","y","t","h","o","n">>, <<"D","j","a","n","g","o">>, <<"F","a","s","t","A","P","I">>, <<"R","E","S","T"," ","A","P","I","s">>,
                      <<"P","o","s","t","g","r","e","S","Q","L">>, <<"R","e","d","i","s">>, <<"D","o","c","k","e","r">> >>,
        experience_years |-> 4,
        education |-> <<"M","S"," ","S","o","f","t","w","a","r","e"," ","E","n","g","i","n","e","e","r","i","n","g">>,
        previous_roles |-> << <<"P","y","t","h","o","n"," ","D","e","v","e","l","o","p","e","r">>, <<"A","P","I"," ","D","e","v","e","l","o","p","e","r">> >>],
       [id |-> 5,
        skills |-> << <<"D","a","t","a"," ","A","n","a","l","y","s","i","s">>, <<"R">>, <<"P","y","t","h","o","n">>, <<"S","t","a","t","i","s","t","i","c","s">>,
                      <<"M","a","c","h","i","n","e"," ","L","e","a","r","n","i","n","g">>, <<"T","a","b","l","e","a","u">>, <<"P","o","w","e","r"," ","B","I">> >>,
        experience_years |-> 6,
        education |-> <<"P","h","D"," ","S","t","a","t","i","s","t","i","c","s">>,
        previous_roles |-> << <<"D","a","t","a"," ","A","n","a","l","y","s","t">>,
                              <<"B","u","s","i","n","e","s","s"," ","I","n","t","e","l","l","i","g","e","n","c","e"," ","A","n","a","l","y","s","t">> >>],
       [id |-> 6,
        skills |-> << <<"C","+","+">>, <<"S","y","s","t","e","m"," ","P","r","o","g","r","a","m","m","i","n","g">>, <<"L","i","n","u","x">>,
                      <<"P","e","r","f","o","r","m","a","n","c","e"," ","O","p","t","i","m","i","z","a","t","i","o","n">>, <<"E","m","b","e","d","d","e","d"," ","S","y","s","t","e","m","s">> >>,
        experience_years |-> 8,
        education |-> <<"M","S"," ","C","o","m","p","u","t","e","r"," ","E","n","g","i","n","e","e","r","i","n","g">>,
        previous_roles |-> << <<"S","y","s","t","e","m","s"," ","E","n","g","i","n","e","e","r">>,
                              <<"E","m","b","e","d","d","e","d"," ","S","o","f","t","w","a","r","e"," ","D","e","v","e","l","o","p","e","r">> >>],
       [id |-> 7,
        skills |-> << <<"U","I","/","U","X"," ","D","e","s","i","g","n">>, <<"F","i","g","m","a">>, <<"A","d","o","b","e"," ","C","r","e","a","t","i","v","e"," ","S","u","i","t","e">>,
                      <<"P","r","o","t","o","t","y","p","i","n","g">>, <<"U","s","e","r"," ","R","e","s","e","a","r","c","h">>, <<"J","a","v","a","S","c","r","i","p","t">>,
                      <<"R","e","a","c","t">> >>,
        experience_years |-> 4,
        education |-> <<"B","F","A"," ","G","r","a","p","h","i","c"," ","D","e","s","i","g","n">>,
        previous_roles |-> << <<"U","I"," ","D","e","s","i","g","n","e","r">>, <<"U","X"," ","D","e","s","i","g","n","e","r">>,
                              <<"P","r","o","d","u","c","t"," ","D","e","s","i","g","n","e","r">> >>],
       [id |-> 8,
        skills |-> << <<"D","e","v","O","p","s">>, <<"C","I","/","C","D">>, <<"J","e","n","k","i","n","s">>, <<"G","i","t","L","a","b">>,
                      <<"T","e","r","r","a","f","o","r","m">>, <<"A","n","s","i","b","l","e">>, <<"M","o","n","i","t","o","r","i","n","g">> >>,
        experience_years |-> 5,
        education |-> <<"B","S"," ","I","n","f","o","r","m","a","t","i","o","n"," ","T","e","c","h","n","o","l","o","g","y">>,
        previous_roles |-> << <<"D","e","v","O","p","s"," ","E","n","g","i","n","e","e","r">>,
                              <<"S","i","t","e"," ","R","e","l","i","a","b","i","l","i","t","y"," ","E","n","g","i","n","e","e","r">> >>] >>

SAMPLE_JOB_DESCRIPTIONS ==
    << [id |-> 1,
        title |-> <<"S","e","n","i","o","r"," ","D","a","t","a"," ","S","c","i","e","n","t","i","s","t">>,
        required_skills |-> << <<"P","y","t","h","o","n">>, <<"M","a","c","h","i","n","e"," ","L","e","a","r","n","i","n","g">>,
                               <<"S","t","a","t","i","s","t","i","c","s">>, <<"T","e","n","s","o","r","F","l","o","w">>,
                               <<"D","a","t","a"," ","A","n","a","l","y","s","i","s">> >>,
        preferred_skills |-> << <<"D","e","e","p"," ","L","e","a","r","n","i","n","g">>, <<"N","L","P">>,
                                <<"C","o","m","p","u","t","e","r"," ","V","i","s","i","o","n">>, <<"A","W","S">>, <<"M","L","O","p","s">> >>,
        min_experience |-> 4,
        education_requirements |->
            <<"M","S"," ","i","n"," ","C","o","m","p","u","t","e","r"," ","S","c","i","e","n","c","e",","," ","S","t","a","t","i","s","t","i","c","s",","," ","o","r"," ","r","e","l","a","t","e","d"," ","f","i","e","l","d">>],
       [id |-> 2,
        title |-> <<"F","r","o","n","t","e","n","d"," ","D","e","v","e","l","o","p","e","r">>,
        required_skills |-> << <<"J","a","v","a","S","c","r","i","p","t">>, <<"R","e","a","c","t">>, <<"H","T","M","L">>, <<"C","S","S">>,
                               <<"G","i","t">> >>,
        preferred_skills |-> << <<"T","y","p","e","S","c","r","i","p","t">>, <<"N","e","x","t",".","j","s">>,
                                <<"T","a","i","l","w","i","n","d"," ","C","S","S">>, <<"T","e","s","t","i","n","g">> >>,
        min_experience |-> 2,
        education_requirements |->
            <<"B","S"," ","i","n"," ","C","o","m","p","u","t","e","r"," ","S","c","i","e","n","c","e"," ","o","r"," ","e","q","u","i","v","a","l","e","n","t"," ","e","x","p","e","r","i","e","n","c","e">>],
       [id |-> 3,
        title |-> <<"B","a","c","k","e","n","d"," ","S","o","f","t","w","a","r","e"," ","E","n","g","i","n","e","e","r">>,
        required_skills |-> << <<"J","a","v","a">>, <<"S","p","r","i","n","g"," ","B","o","o","t">>, <<"R","E","S","T"," ","A","P","I","s">>,
                               <<"D","a","t","a","b","a","s","e"," ","D","e","s","i","g","n">>, <<"G","i","t">> >>,
        preferred_skills |-> << <<"M","i","c","r","o","s","e","r","v","i","c","e","s">>, <<"D","o","c","k","e","r">>,
                                <<"K","u","b","e","r","n","e","t","e","s">>, <<"C","l","o","u","d"," ","P","l","a","t","f","o","r","m","s">> >>,
        min_experience |-> 5,
        education_requirements |->
            <<"B","S"," ","i","n"," ","S","o","f","t","w","a","r","e"," ","E","n","g","i","n","e","e","r","i","n","g"," ","o","r"," ","C","o","m","p","u","t","e","r"," ","S","c","i","e","n","c","e">>],
       [id |-> 4,
        title |-> <<"P","y","t","h","o","n"," ","D","e","v","e","l","o","p","e","r">>,
        required_skills |-> << <<"P","y","t","h","o","n">>, <<"W","e","b"," ","D","e","v","e","l","o","p","m","e","n","t">>,
                               <<"R","E","S","T"," ","A","P","I","s">>, <<"D","a","t","a","b","a","s","e">> >>,
        preferred_skills |-> << <<"D","j","a","n","g","o">>, <<"F","a","s","t","A","P","I">>, <<"P","o","s","t","g","r","e","S","Q","L">>,
                                <<"R","e","d","i","s">>, <<"D","o","c","k","e","r">> >>,
        min_experience |-> 3,
        education_requirements |->
            <<"B","S"," ","i","n"," ","C","o","m","p","u","t","e","r"," ","S","c","i","e","n","c","e"," ","o","r"," ","r","e","l","a","t","e","d"," ","f","i","e","l","d">>],
       [id |-> 5,
        title |-> <<"D","e","v","O","p","s"," ","E","n","g","i","n","e","e","r">>,
        required_skills |-> << <<"D","e","v","O","p","s">>, <<"C","I","/","C","D">>, <<"D","o","c","k","e","r">>,
                               <<"K","u","b","e","r","n","e","t","e","s">>, <<"L","i","n","u","x">> >>,
        preferred_skills |-> << <<"T","e","r","r","a","f","o","r","m">>, <<"A","n","s","i","b","l","e">>, <<"J","e","n","k","i","n","s">>,
                                <<"M","o","n","i","t","o","r","i","n","g">>, <<"C","l","o","u","d"," ","P","l","a","t","f","o","r","m","s">> >>,
        min_experience |-> 4,
        education_requirements |->
            <<"B","S"," ","i","n"," ","C","o","m","p","u","t","e","r"," ","S","c","i","e","n","c","e",","," ","I","T",","," ","o","r"," ","r","e","l","a","t","e","d"," ","f","i","e","l","d">>] >>

---------------------------------------------------------------------------
(* candidate_ranking_tool.py: class CandidateRanker. *)

lower_all(lst) ==
    [i \in 1..Len(lst) |-> lower(lst[i])]

(* count_in with `skill in pool` taken as a substring test on the joined
   pool *)
RECURSIVE count_in_substring(_, _)
count_in_substring(lst, pool) ==
    IF lst = << >>
    THEN 0
    ELSE (IF \E i \in 1..Len(pool) : str_in(Head(lst), pool[i])
          THEN 1 ELSE 0)
         + count_in_substring(Tail(lst), pool)

(* sum(1 for skill in lst if skill in pool) *)
RECURSIVE count_in(_, _)
count_in(lst, pool) ==
    IF lst = << >>
    THEN 0
    ELSE (IF list_in(Head(lst), pool) THEN 1 ELSE 0) + count_in(Tail(lst), pool)

(* match_ratio with an empty list counted as fully matched *)
match_ratio_empty_one(matches, lst) ==
    IF lst # << >> THEN Frac(matches, Len(lst)) ELSE FromInt(1)

(* matches / len(lst) if lst else 0 *)
match_ratio(matches, lst) ==
    IF lst # << >> THEN Frac(matches, Len(lst)) ELSE FromInt(0)

calculate_skills_match(candidate_skills, required_skills, preferred_skills) ==
    LET candidate_skills_lower == lower_all(candidate_skills)
        required_skills_lower == lower_all(required_skills)
        preferred_skills_lower == lower_all(preferred_skills)
        required_matches == count_in(required_skills_lower,
                                     candidate_skills_lower)
        required_score == match_ratio(required_matches, required_skills_lower)
        preferred_matches == count_in(preferred_skills_lower,
                                      candidate_skills_lower)
        preferred_score == match_ratio(preferred_matches,
                                       preferred_skills_lower)
        overall_score == FAdd(FMul(required_score, Frac(7, 10)),
                              FMul(preferred_score, Frac(3, 10)))
    IN  [score |-> overall_score,
         breakdown |-> [required_matches |-> required_matches,
                        required_total |-> Len(required_skills_lower),
                        required_score |-> required_score,
                        preferred_matches |-> preferred_matches,
                        preferred_total |-> Len(preferred_skills_lower),
                        preferred_score |-> preferred_score,
                        overall_score |-> overall_score]]

(* experience_bonus_score with the bonus capped at 0.1 *)
experience_bonus_score_low_cap(extra_years) ==
    LET bonus == FMin(FMul(FromInt(extra_years), Frac(1, 10)), Frac(1, 10))
    IN  FMin(FromInt(1), FAdd(Frac(8, 10), bonus))

(* the branch taken when candidate_experience >= min_experience *)
experience_bonus_score(extra_years) ==
    LET bonus == FMin(FMul(FromInt(extra_years), Frac(1, 10)), Frac(3, 10))
    IN  FMin(FromInt(1), FAdd(Frac(8, 10), bonus))

(* experience_penalty_score with the bonus rate 0.1 as penalty rate *)
experience_penalty_score_tenth(shortage) ==
    LET penalty == FMul(FromInt(shortage), Frac(1, 10))
    IN  FMax(FromInt(0), FSub(Frac(8, 10), penalty))

(* the branch taken when candidate_experience < min_experience *)
experience_penalty_score(shortage) ==
    LET penalty == FMul(FromInt(shortage), Frac(2, 10))
    IN  FMax(FromInt(0), FSub(Frac(8, 10), penalty))

calculate_experience_score(candidate_experience, min_experience) ==
    LET score == IF candidate_experience >= min_experience
                 THEN experience_bonus_score(candidate_experience
                                             - min_experience)
                 ELSE experience_penalty_score(min_experience
                                               - candidate_experience)
    IN  [score |-> score,
         breakdown |-> [candidate_experience |-> candidate_experience,
                        min_required |-> min_experience,
                        meets_requirement |->
                            (candidate_experience >= min_experience),
                        score |-> score]]

(* the dict of calculate_education_score, in insertion order *)
education_mapping ==
    << [degree |-> <<"p","h","d">>, level |-> 4],
       [degree |-> <<"d","o","c","t","o","r","a","t","e">>, level |-> 4],
       [degree |-> <<"m","s">>, level |-> 3],
       [degree |-> <<"m","a","s","t","e","r">>, level |-> 3],
       [degree |-> <<"m","a","s","t","e","r","s">>, level |-> 3],
       [degree |-> <<"b","s">>, level |-> 2],
       [degree |-> <<"b","a","c","h","e","l","o","r">>, level |-> 2],
       [degree |-> <<"b","a","c","h","e","l","o","r","s">>, level |-> 2],
       [degree |-> <<"a","s","s","o","c","i","a","t","e">>, level |-> 1],
       [degree |-> <<"d","i","p","l","o","m","a">>, level |-> 1] >>

int_max(a, b) ==
    IF a >= b THEN a ELSE b

(* degree_level_from with `level = level` in place of max(): the last
   keyword found wins *)
RECURSIVE degree_level_from_last(_, _, _)
degree_level_from_last(text, i, level_so_far) ==
    IF i > Len(education_mapping)
    THEN level_so_far
    ELSE degree_level_from_last(text, i + 1,
             IF str_in(education_mapping[i].degree, lower(text))
             THEN education_mapping[i].level
             ELSE level_so_far)

(* for degree, level in education_mapping.items(): ... max(level_so_far, level) *)
RECURSIVE degree_level_from(_, _, _)
degree_level_from(text, i, level_so_far) ==
    IF i > Len(education_mapping)
    THEN level_so_far
    ELSE degree_level_from(text, i + 1,
             IF str_in(education_mapping[i].degree, lower(text))
             THEN int_max(level_so_far, education_mapping[i].level)
             ELSE level_so_far)

degree_level(text) ==
    degree_level_from(text, 1, 0)

(* education_level_score without the final min(1.0, score) *)
education_level_score_uncapped(candidate_level, required_level) ==
    IF candidate_level >= required_level
    THEN FAdd(Frac(8, 10),
              FMul(FromInt(candidate_level - required_level), Frac(1, 10)))
    ELSE FMax(FromInt(0),
              FSub(Frac(8, 10),
                   FMul(FromInt(required_level - candidate_level),
                        Frac(2, 10))))

education_level_score(candidate_level, required_level) ==
    LET score == IF candidate_level >= required_level
                 THEN FAdd(Frac(8, 10),
                           FMul(FromInt(candidate_level - required_level),
                                Frac(1, 10)))
                 ELSE FMax(FromInt(0),
                           FSub(Frac(8, 10),
                                FMul(FromInt(required_level - candidate_level),
                                     Frac(2, 10))))
    IN  FMin(FromInt(1), score)

calculate_education_score(candidate_education, education_requirements) ==
    LET candidate_level == degree_level(candidate_education)
        required_level == degree_level(education_requirements)
        score == education_level_score(candidate_level, required_level)
    IN  [score |-> score,
         breakdown |-> [candidate_education |-> candidate_education,
                        required_education |-> education_requirements,
                        candidate_level |-> candidate_level,
                        required_level |-> required_level,
                        meets_requirement |->
                            (candidate_level >= required_level),
                        score |-> score]]

(* role_matches_title with `keyword in role.lower()`: a substring test *)
role_matches_title_substring(role, job_keywords) ==
    \E k \in 1..Len(job_keywords) : str_in(job_keywords[k], lower(role))

(* any(keyword in role_words for keyword in job_keywords) *)
role_matches_title(role, job_keywords) ==
    LET role_words == split(lower(role))
    IN  \E k \in 1..Len(job_keywords) : list_in(job_keywords[k], role_words)

RECURSIVE count_role_matches(_, _)
count_role_matches(previous_roles, job_keywords) ==
    IF previous_roles = << >>
    THEN 0
    ELSE (IF role_matches_title(Head(previous_roles), job_keywords)
          THEN 1 ELSE 0)
         + count_role_matches(Tail(previous_roles), job_keywords)

role_score(role_matches) ==
    IF role_matches > 0
    THEN FMin(FromInt(1), FAdd(Frac(6, 10),
                               FMul(FromInt(role_matches), Frac(2, 10))))
    ELSE Frac(3, 10)

calculate_role_relevance(previous_roles, job_title) ==
    LET job_keywords == split(lower(job_title))
        role_matches == count_role_matches(previous_roles, job_keywords)
        score == role_score(role_matches)
    IN  [score |-> score,
         breakdown |-> [previous_roles |-> previous_roles,
                        job_title |-> job_title,
                        role_matches |-> role_matches,
                        score |-> score]]

(* weighted_overall with four equal weights *)
weighted_overall_equal(skills_score, experience_score, education_score, role_relevance_score) ==
    FAdd(FAdd(FAdd(FMul(skills_score, Frac(25, 100)),
                   FMul(experience_score, Frac(25, 100))),
              FMul(education_score, Frac(25, 100))),
         FMul(role_relevance_score, Frac(25, 100)))

(* overall score with weights 40% / 25% / 20% / 15% *)
weighted_overall(skills_score, experience_score, education_score, role_relevance_score) ==
    FAdd(FAdd(FAdd(FMul(skills_score, Frac(40, 100)),
                   FMul(experience_score, Frac(25, 100))),
              FMul(education_score, Frac(20, 100))),
         FMul(role_relevance_score, Frac(15, 100)))

(* the body of the loop of rank_candidates *)
candidate_result(candidate, job_description) ==
    LET skills == calculate_skills_match(candidate.skills,
                      job_description.required_skills,
                      job_description.preferred_skills)
        experience == calculate_experience_score(candidate.experience_years,
                          job_description.min_experience)
        education == calculate_education_score(candidate.education,
                         job_description.education_requirements)
        role == calculate_role_relevance(candidate.previous_roles,
                    job_description.title)
    IN  [candidate |-> candidate,
         overall_score |-> weighted_overall(skills.score, experience.score,
                                            education.score, role.score),
         scores |-> [skills |-> skills.score,
                     experience |-> experience.score,
                     education |-> education.score,
                     role_relevance |-> role.score],
         breakdowns |-> [skills |-> skills.breakdown,
                         experience |-> experience.breakdown,
                         education |-> education.breakdown,
                         role_relevance |-> role.breakdown]]

reverse(lst) ==
    [i \in 1..Len(lst) |-> lst[Len(lst) + 1 - i]]

(* insert x into the ascending list s, behind the entries that do not
   compare greater than x *)
RECURSIVE insert_sorted(_, _)
insert_sorted(s, x) ==
    IF s = << >>
    THEN << x >>
    ELSE IF FLe(Head(s).overall_score, x.overall_score)
         THEN << Head(s) >> \o insert_sorted(Tail(s), x)
         ELSE << x >> \o s

(* the stable ascending sort of list.sort *)
RECURSIVE stable_sort_from(_, _, _)
stable_sort_from(lst, i, sorted) ==
    IF i > Len(lst)
    THEN sorted
    ELSE stable_sort_from(lst, i + 1, insert_sorted(sorted, lst[i]))

stable_sort(lst) ==
    stable_sort_from(lst, 1, << >>)

(* sort_reverse without reverse=True *)
sort_reverse_ascending(lst) ==
    stable_sort(lst)

(* sort_reverse as an ascending sort followed by lst.reverse() *)
sort_reverse_then_reverse(lst) ==
    reverse(stable_sort(lst))

(* lst.sort(key=lambda x: x["overall_score"], reverse=True): list.sort
   reverses the list, sorts it stably ascending and reverses the result *)
sort_reverse(lst) ==
    reverse(stable_sort(reverse(lst)))

(* rank_candidates that drops the candidates without any skill match *)
rank_candidates_filtered(self_candidates, job_description) ==
    LET ranked_candidates ==
            [i \in 1..Len(self_candidates) |->
                candidate_result(self_candidates[i], job_description)]
    IN  sort_reverse(SelectSeq(ranked_candidates,
                               LAMBDA r : r.scores.skills # FromInt(0)))

rank_candidates(self_candidates, job_description) ==
    LET ranked_candidates ==
            [i \in 1..Len(self_candidates) |->
                candidate_result(self_candidates[i], job_description)]
    IN  sort_reverse(ranked_candidates)

---------------------------------------------------------------------------
(* Inputs. *)

BigYears == 1000

SeqUpTo(S, n) ==
    UNION {[1..k -> S] : k \in 0..n}

RECURSIVE join_words(_)
join_words(ws) ==
    IF ws = << >>
    THEN << >>
    ELSE IF Len(ws) = 1
         THEN Head(ws)
         ELSE Head(ws) \o << " " >> \o join_words(Tail(ws))

(* candidate records beside the sample table: two different records that
   score alike, empty lists with a negative year count, a very large year
   count with skills that differ in case from the jobs' *)
ProfilePool ==
    { [skills |-> << <<"P","y","t","h","o","n">>, <<"S","Q","L">> >>,
       experience_years |-> 5,
       education |-> <<"M","S"," ","C","o","m","p","u","t","e","r"," ","S","c","i","e","n","c","e">>,
       previous_roles |-> << <<"D","a","t","a"," ","S","c","i","e","n","t","i","s","t">>, <<"M","L"," ","E","n","g","i","n","e","e","r">> >>],
      [skills |-> << <<"s","q","l">>, <<"p","y","t","h","o","n">> >>,
       experience_years |-> 5,
       education |-> <<"M","a","s","t","e","r","s">>,
       previous_roles |-> << <<"m","l"," ","e","n","g","i","n","e","e","r">>, <<"d","a","t","a"," ","a","n","a","l","y","s","t">> >>],
      [skills |-> << >>,
       experience_years |-> -1,
       education |-> << >>,
       previous_roles |-> << >>],
      [skills |-> << <<"P","Y","T","H","O","N">>, <<"S","q","l">>, <<"P","y">> >>,
       experience_years |-> BigYears,
       education |-> <<"P","h","D"," ","S","t","a","t","i","s","t","i","c","s">>,
       previous_roles |-> << <<"S","e","n","i","o","r"," ","D","a","t","a"," ","S","c","i","e","n","t","i","s","t">>, <<"D","a","t","a"," ","A","n","a","l","y","s","t">>,
                             <<"D","a","t","a","b","a","s","e"," ","E","n","g","i","n","e","e","r">> >>] }

table_of(profiles) ==
    [i \in 1..Len(profiles) |->
        [id |-> i,
         skills |-> profiles[i].skills,
         experience_years |-> profiles[i].experience_years,
         education |-> profiles[i].education,
         previous_roles |-> profiles[i].previous_roles]]

CandidateTables ==
    {CANDIDATES} \cup {table_of(ps) : ps \in SeqUpTo(ProfilePool, MaxCands)}

(* job records beside the sample table *)
EdgeJobs ==
    { [id |-> 6,
       title |-> << >>,
       required_skills |-> << >>,
       preferred_skills |-> << >>,
       min_experience |-> 0,
       education_requirements |-> << >>],
      [id |-> 7,
       title |-> <<"D","a","t","a"," ","S","c","i","e","n","t","i","s","t">>,
       required_skills |-> << <<"p","y","t","h","o","n">>, <<"s","q","l">> >>,
       preferred_skills |-> << >>,
       min_experience |-> 9,
       education_requirements |-> <<"P","h","D">>],
      [id |-> 8,
       title |-> <<" ","d","a","t","a"," ","\t"," ","e","n","g","i","n","e","e","r"," ">>,
       required_skills |-> << <<"P","y","t","h","o","n">> >>,
       preferred_skills |-> << <<"S","Q","L">>, <<"P","y">> >>,
       min_experience |-> -2,
       education_requirements |-> <<"B","S"," ","o","r"," ","M","S">>],
      [id |-> 9,
       title |-> <<"M","L"," ","E","n","g","i","n","e","e","r">>,
       required_skills |-> << >>,
       preferred_skills |-> << <<"P","y","t","h","o","n">>, <<"S","Q","L">> >>,
       min_experience |-> 5,
       education_requirements |-> <<"M","a","s","t","e","r">>] }

JobInputs ==
    {SAMPLE_JOB_DESCRIPTIONS[i] : i \in 1..Len(SAMPLE_JOB_DESCRIPTIONS)}
    \cup EdgeJobs

SkillPool ==
    { <<"P","y","t","h","o","n">>, <<"p","y","t","h","o","n">>, <<"P","y">> }

CandidateSkillLists ==
    SeqUpTo(SkillPool, MaxCandidateSkills)

RequiredSkillLists ==
    SeqUpTo(SkillPool, MaxRequired)

PreferredSkillLists ==
    SeqUpTo(SkillPool, MaxPreferred)

YearValues ==
    ((-MaxYears)..MaxYears) \cup {BigYears, -BigYears}

EduWords ==
    { <<"P","h","D">>, <<"M","a","s","t","e","r","s">>, <<"B","S">>, <<"D","i","p","l","o","m","a">>, <<"S","y","s","t","e","m","s">>, <<"A","r","t">> }

EduExtra ==
    { <<"D","o","c","t","o","r","a","t","e">>, <<"B","a","c","h","e","l","o","r"," ","o","f"," ","A","r","t","s">>, <<"b","a","c","h","e","l","o","r","s">>,
      <<"A","s","s","o","c","i","a","t","e"," ","d","e","g","r","e","e">>, <<"M","a","s","t","e","r"," ","o","r"," ","P","h","D">>, <<"B","S"," ","o","r"," ","M","S">>,
      <<"M","S"," ","i","n"," ","C","o","m","p","u","t","e","r"," ","S","c","i","e","n","c","e",","," ","S","t","a","t","i","s","t","i","c","s",","," ","o","r"," ","r","e","l","a","t","e","d"," ","f","i","e","l","d">>,
      <<"B","F","A"," ","G","r","a","p","h","i","c"," ","D","e","s","i","g","n">> }

EduStrings ==
    {join_words(ws) : ws \in SeqUpTo(EduWords, MaxEduWords)} \cup EduExtra

RequirementStrings ==
    {join_words(ws) : ws \in SeqUpTo(EduWords, MaxRequirementWords)}
    \cup EduExtra

RolePool ==
    { <<"D","a","t","a"," ","S","c","i","e","n","t","i","s","t">>, <<"D","a","t","a","b","a","s","e"," ","A","d","m","i","n">>, <<"S","a","l","e","s"," ","R","e","p">>,
      <<"s","e","n","i","o","r","\t","d","a","t","a"," "," ","e","n","g","i","n","e","e","r">> }

RoleLists ==
    SeqUpTo(RolePool, MaxRoles)

TitlePool ==
    { <<"S","e","n","i","o","r"," ","D","a","t","a"," ","S","c","i","e","n","t","i","s","t">>, <<"D","a","t","a">>, <<" ","s","a","l","e","s"," "," ","R","E","P"," ">>, << >>,
      <<"B","a","s","e">> }

---------------------------------------------------------------------------
(* The ranker and its operations.  call is the invocation a caller is about
   to make on the global ranker, ret what that invocation returned. *)

NoReturn ==
    [fn |-> "none"]

(* no CandidateRankingAgent has been constructed *)
NoApp ==
    [pc |-> "none"]

RankCalls ==
    {[fn |-> "rank_candidates", job_description |-> j] : j \in JobInputs}

SkillsCalls ==
    {[fn |-> "calculate_skills_match", candidate_skills |-> cs,
      required_skills |-> rs, preferred_skills |-> ps] :
        cs \in CandidateSkillLists, rs \in RequiredSkillLists,
        ps \in PreferredSkillLists}

ExperienceCalls ==
    {[fn |-> "calculate_experience_score", candidate_experience |-> c,
      min_experience |-> m] : c \in YearValues, m \in YearValues}

EducationCalls ==
    {[fn |-> "calculate_education_score", candidate_education |-> ce,
      education_requirements |-> er] : ce \in EduStrings,
                                       er \in RequirementStrings}

RoleCalls ==
    {[fn |-> "calculate_role_relevance", previous_roles |-> rl,
      job_title |-> t] : rl \in RoleLists, t \in TitlePool}

(* ranker = CandidateRanker(): the caller is about to rank some candidate
   table, or to use one of the four scoring methods of the ranker over the
   sample table *)
Init ==
    /\ job_descriptions = SAMPLE_JOB_DESCRIPTIONS
    /\ ret = NoReturn
    /\ outbox = << >>
    /\ app = NoApp
    /\ threads = << >>
    /\ documents = << >>
    /\ \/ /\ candidates \in CandidateTables
          /\ call \in RankCalls
       \/ /\ candidates = CANDIDATES
          /\ call \in SkillsCalls \cup ExperienceCalls \cup EducationCalls
                      \cup RoleCalls

(* ranker.rank_candidates(job_description) *)
RankCandidates ==
    /\ call.fn = "rank_candidates"
    /\ ret = NoReturn
    /\ ret' = [fn |-> call.fn,
               value |-> rank_candidates(candidates, call.job_description)]
    /\ UNCHANGED <<candidates, job_descriptions, call, threads, documents,
                   outbox, app>>

(* ranker.calculate_skills_match(...) *)
SkillsMatch ==
    /\ call.fn = "calculate_skills_match"
    /\ ret = NoReturn
    /\ ret' = [fn |-> call.fn,
               value |-> calculate_skills_match(call.candidate_skills,
                             call.required_skills, call.preferred_skills)]
    /\ UNCHANGED <<candidates, job_descriptions, call, threads, documents,
                   outbox, app>>

(* ranker.calculate_experience_score(...) *)
ExperienceScore ==
    /\ call.fn = "calculate_experience_score"
    /\ ret = NoReturn
    /\ ret' = [fn |-> call.fn,
               value |-> calculate_experience_score(call.candidate_experience,
                                                    call.min_experience)]
    /\ UNCHANGED <<candidates, job_descriptions, call, threads, documents,
                   outbox, app>>

(* ranker.calculate_education_score(...) *)
EducationScore ==
    /\ call.fn = "calculate_education_score"
    /\ ret = NoReturn
    /\ ret' = [fn |-> call.fn,
               value |-> calculate_education_score(call.candidate_education,
                             call.education_requirements)]
    /\ UNCHANGED <<candidates, job_descriptions, call, threads, documents,
                   outbox, app>>

(* ranker.calculate_role_relevance(...) *)
RoleRelevance ==
    /\ call.fn = "calculate_role_relevance"
    /\ ret = NoReturn
    /\ ret' = [fn |-> call.fn,
               value |-> calculate_role_relevance(call.previous_roles,
                                                  call.job_title)]
    /\ UNCHANGED <<candidates, job_descriptions, call, threads, documents,
                   outbox, app>>

Next ==
    \/ RankCandidates
    \/ SkillsMatch
    \/ ExperienceScore
    \/ EducationScore
    \/ RoleRelevance

Spec ==
    Init /\ [][Next]_vars

---------------------------------------------------------------------------
(* Properties. *)

Zero == FromInt(0)

One == FromInt(1)

In01(x) ==
    FLe(Zero, x) /\ FLe(x, One)

SetMax(S) ==
    CHOOSE x \in S : \A y \in S : y <= x

Ranked ==
    ret.fn = "rank_candidates"

(* the position a result's candidate has in the candidate table *)
InputPos(r) ==
    CHOOSE i \in 1..Len(candidates) : candidates[i] = r.candidate

(* C1: rank_candidates returns exactly one result per input candidate: the
   output is as long as the candidate table and every candidate of the table
   is the candidate of exactly one result. *)
C1_OneResultPerCandidate ==
    Ranked =>
        /\ Len(ret.value) = Len(candidates)
        /\ \A i \in 1..Len(candidates) :
              Cardinality({j \in 1..Len(ret.value) :
                              ret.value[j].candidate = candidates[i]}) = 1

(* a ranking of several candidates, one of them without any skill match,
   that changed their order *)
C1_Witness ==
    /\ Ranked
    /\ Len(candidates) >= 2
    /\ Len(ret.value) = Len(candidates)
    /\ ret.value[1].candidate # candidates[1]
    /\ \E j \in 1..Len(ret.value) : ret.value[j].scores.skills = Zero

(* C2: the returned list is ordered descending by overall score: each result's
   overall_score is at least that of the result after it. *)
C2_DescendingOrder ==
    Ranked =>
        \A j \in 1..(Len(ret.value) - 1) :
            FLe(ret.value[j + 1].overall_score, ret.value[j].overall_score)

(* a ranking that moved a strictly better candidate in front of one that
   precedes it in the table *)
C2_Witness ==
    /\ Ranked
    /\ \E j \in 1..(Len(ret.value) - 1) :
          /\ ret.value[j].overall_score # ret.value[j + 1].overall_score
          /\ InputPos(ret.value[j]) > InputPos(ret.value[j + 1])

(* C3: the ranking is stable: two results with identical overall scores are
   in the order their candidates have in the candidate table. *)
C3_StableRanking ==
    Ranked =>
        \A j \in 1..Len(ret.value), k \in 1..Len(ret.value) :
            (j < k /\ ret.value[j].overall_score = ret.value[k].overall_score)
                => InputPos(ret.value[j]) < InputPos(ret.value[k])

(* a ranking with a tie between two different candidate records, and a
   strictly better candidate that came after them in the table *)
C3_Witness ==
    /\ Ranked
    /\ \E j \in 1..Len(ret.value), k \in 1..Len(ret.value) :
          /\ j < k
          /\ ret.value[j].overall_score = ret.value[k].overall_score
          /\ ret.value[j].candidate.skills # ret.value[k].candidate.skills
    /\ \E j \in 1..Len(ret.value) :
          /\ ret.value[1].overall_score # ret.value[j].overall_score
          /\ InputPos(ret.value[1]) > InputPos(ret.value[j])

(* C4: every result's overall_score is 0.4*skills + 0.25*experience +
   0.20*education + 0.15*role_relevance of the sub-scores stored in that
   result, and the four weights sum to 1. *)
C4_WeightedOverall ==
    /\ FAdd(FAdd(Frac(4, 10), Frac(25, 100)),
            FAdd(Frac(20, 100), Frac(15, 100))) = One
    /\ Ranked =>
          \A j \in 1..Len(ret.value) :
              LET s == ret.value[j].scores
              IN  ret.value[j].overall_score
                    = Frac(  (s.skills.n * 40) * (s.experience.d
                                 * s.education.d * s.role_relevance.d)
                           + (s.experience.n * 25) * (s.skills.d
                                 * s.education.d * s.role_relevance.d)
                           + (s.education.n * 20) * (s.skills.d
                                 * s.experience.d * s.role_relevance.d)
                           + (s.role_relevance.n * 15) * (s.skills.d
                                 * s.experience.d * s.education.d),
                           100 * (s.skills.d * s.experience.d
                                  * s.education.d * s.role_relevance.d))

(* a ranking with a result whose four sub-scores are pairwise different *)
C4_Witness ==
    /\ Ranked
    /\ \E j \in 1..Len(ret.value) :
          LET s == ret.value[j].scores
          IN  Cardinality({s.skills, s.experience, s.education,
                           s.role_relevance}) = 4

(* C5: each of the four sub-scores and the overall score lies in [0,1], for
   the scoring methods called on their own and for every result of a
   ranking. *)
C5_ScoresInUnitInterval ==
    /\ ret.fn \in {"calculate_skills_match", "calculate_experience_score",
                   "calculate_education_score", "calculate_role_relevance"}
          => In01(ret.value.score)
    /\ Ranked =>
          \A j \in 1..Len(ret.value) :
              /\ In01(ret.value[j].overall_score)
              /\ In01(ret.value[j].scores.skills)
              /\ In01(ret.value[j].scores.experience)
              /\ In01(ret.value[j].scores.education)
              /\ In01(ret.value[j].scores.role_relevance)

(* a ranking that holds a candidate with empty skill and role lists, a
   negative year count and no education keyword, and one with a very large
   year count whose education exceeds the requirement by four levels *)
C5_Witness ==
    /\ Ranked
    /\ \E j \in 1..Len(ret.value) :
          /\ ret.value[j].candidate.skills = << >>
          /\ ret.value[j].candidate.previous_roles = << >>
          /\ ret.value[j].candidate.experience_years < 0
          /\ ret.value[j].breakdowns.education.candidate_level = 0
    /\ \E j \in 1..Len(ret.value) :
          /\ ret.value[j].candidate.experience_years = BigYears
          /\ ret.value[j].breakdowns.education.candidate_level = 4
          /\ ret.value[j].breakdowns.education.required_level = 0
          /\ ret.value[j].scores.education = One

(* the number of entries of lst that equal, after lower-casing, some entry
   of pool *)
EqualMatches(lst, pool) ==
    Cardinality({i \in 1..Len(lst) :
                    \E k \in 1..Len(pool) : lower(lst[i]) = lower(pool[k])})

RatioOrZero(lst, pool) ==
    IF Len(lst) = 0 THEN Zero ELSE Frac(EqualMatches(lst, pool), Len(lst))

(* C6: calculate_skills_match returns 0.7*requiredScore + 0.3*preferredScore,
   each being the share of the list's entries that equal some candidate skill
   after lower-casing, 0 for an empty list; the breakdown's counts, totals and
   sub-scores agree with the returned score. *)
C6_SkillsMatch ==
    ret.fn = "calculate_skills_match" =>
        LET requiredScore == RatioOrZero(call.required_skills,
                                         call.candidate_skills)
            preferredScore == RatioOrZero(call.preferred_skills,
                                          call.candidate_skills)
            b == ret.value.breakdown
        IN  /\ ret.value.score
                 = Frac(7 * requiredScore.n * preferredScore.d
                        + 3 * preferredScore.n * requiredScore.d,
                        10 * requiredScore.d * preferredScore.d)
            /\ b.required_matches = EqualMatches(call.required_skills,
                                                 call.candidate_skills)
            /\ b.required_total = Len(call.required_skills)
            /\ b.required_score = requiredScore
            /\ b.preferred_matches = EqualMatches(call.preferred_skills,
                                                  call.candidate_skills)
            /\ b.preferred_total = Len(call.preferred_skills)
            /\ b.preferred_score = preferredScore
            /\ b.overall_score = ret.value.score

(* a call where a required skill matches only through lower-casing, another
   required skill is a proper substring of the candidate's skill and does not
   match, and the preferred list is empty *)
C6_Witness ==
    /\ ret.fn = "calculate_skills_match"
    /\ call.candidate_skills = << <<"P","y","t","h","o","n">> >>
    /\ call.required_skills = << <<"P","y">>, <<"p","y","t","h","o","n">> >>
    /\ call.preferred_skills = << >>
    /\ ret.value.breakdown.required_matches = 1
    /\ ret.value.score = Frac(35, 100)

AllPresent(lst, pool) ==
    \A i \in 1..Len(lst) :
        \E k \in 1..Len(pool) : lower(lst[i]) = lower(pool[k])

(* C7 as stated: the skill score is 1 whenever all required and all preferred
   skills are among the candidate's skills, an empty required or preferred
   list included. *)
C7_Original ==
    (/\ ret.fn = "calculate_skills_match"
     /\ AllPresent(call.required_skills, call.candidate_skills)
     /\ AllPresent(call.preferred_skills, call.candidate_skills))
        => ret.value.score = One

(* C7: when all required and all preferred skills are among the candidate's
   skills, the skill score is 1 if both lists are non-empty, 0.7 if only the
   preferred list is empty, 0.3 if only the required list is empty and 0 if
   both are empty. *)
C7_AllPresentScore ==
    (/\ ret.fn = "calculate_skills_match"
     /\ AllPresent(call.required_skills, call.candidate_skills)
     /\ AllPresent(call.preferred_skills, call.candidate_skills))
        => ret.value.score
             = FAdd(IF call.required_skills = << >>
                    THEN Zero ELSE Frac(7, 10),
                    IF call.preferred_skills = << >>
                    THEN Zero ELSE Frac(3, 10))

(* all required skills present and the preferred list empty: 0.7 *)
C7_Witness ==
    /\ ret.fn = "calculate_skills_match"
    /\ call.required_skills # << >>
    /\ call.preferred_skills = << >>
    /\ AllPresent(call.required_skills, call.candidate_skills)
    /\ ret.value.score = Frac(7, 10)

(* C8: calculate_experience_score is 0.8 when candidateYears = minYears, 1.0
   for a surplus of 3 years or more, 0.0 for a shortfall of 4 years or more,
   and 0.8 - 0.2*s for a shortfall of s = 1..3 years. *)
C8_ExperienceScore ==
    ret.fn = "calculate_experience_score" =>
        LET c == call.candidate_experience
            m == call.min_experience
        IN  /\ c = m => ret.value.score = Frac(8, 10)
            /\ c >= m + 3 => ret.value.score = One
            /\ c <= m - 4 => ret.value.score = Zero
            /\ (m - c) \in 1..3 => ret.value.score = Frac(8 - 2 * (m - c), 10)

(* a shortfall of three years against a negative minimum: 0.2 *)
C8_Witness ==
    /\ ret.fn = "calculate_experience_score"
    /\ call.min_experience < 0
    /\ call.min_experience - call.candidate_experience = 3
    /\ ret.value.score = Frac(2, 10)

(* the highest level among the degree keywords the lower-cased text contains,
   0 when it contains none *)
KeywordLevel(text) ==
    SetMax({0} \cup {education_mapping[i].level :
                        i \in {k \in 1..Len(education_mapping) :
                                  str_in(education_mapping[k].degree,
                                         lower(text))}})

LevelScore(candidateLevel, requiredLevel) ==
    IF candidateLevel >= requiredLevel
    THEN FMin(One, Frac(8 + (candidateLevel - requiredLevel), 10))
    ELSE FMax(Zero, Frac(8 - 2 * (requiredLevel - candidateLevel), 10))

(* the rule of C9 without its two examples *)
C9_Rule ==
    ret.fn = "calculate_education_score" =>
        /\ ret.value.breakdown.candidate_level
             = KeywordLevel(call.candidate_education)
        /\ ret.value.breakdown.required_level
             = KeywordLevel(call.education_requirements)
        /\ ret.value.score
             = LevelScore(KeywordLevel(call.candidate_education),
                          KeywordLevel(call.education_requirements))
        /\ education_mapping
             = << [degree |-> <<"p","h","d">>, level |-> 4],
                  [degree |-> <<"d","o","c","t","o","r","a","t","e">>, level |-> 4],
                  [degree |-> <<"m","s">>, level |-> 3],
                  [degree |-> <<"m","a","s","t","e","r">>, level |-> 3],
                  [degree |-> <<"m","a","s","t","e","r","s">>, level |-> 3],
                  [degree |-> <<"b","s">>, level |-> 2],
                  [degree |-> <<"b","a","c","h","e","l","o","r">>, level |-> 2],
                  [degree |-> <<"b","a","c","h","e","l","o","r","s">>, level |-> 2],
                  [degree |-> <<"a","s","s","o","c","i","a","t","e">>, level |-> 1],
                  [degree |-> <<"d","i","p","l","o","m","a">>, level |-> 1] >>

(* C9 as stated: the rule, and every candidate containing "PhD" scores 1.0
   against every requirement containing "BS", and every candidate without a
   keyword scores 0.2 against every requirement containing "Master". *)
C9_Original ==
    /\ C9_Rule
    /\ ret.fn = "calculate_education_score" =>
          /\ (/\ str_in(<<"p","h","d">>, lower(call.candidate_education))
              /\ str_in(<<"b","s">>, lower(call.education_requirements)))
                 => ret.value.score = One
          /\ (/\ KeywordLevel(call.candidate_education) = 0
              /\ str_in(<<"m","a","s","t","e","r">>, lower(call.education_requirements)))
                 => ret.value.score = Frac(2, 10)

(* C9: each string gets the highest level among the keywords it contains as
   lower-cased substring, and the score is min(1.0, 0.8 + 0.1*(c - r)) for
   c >= r and max(0.0, 0.8 - 0.2*(r - c)) otherwise; so a candidate containing
   "PhD" scores 1.0 against a requirement whose highest keyword is of the
   bachelor family, and a candidate without a keyword scores 0.2 against a
   requirement whose highest keyword is of the master family. *)
C9_EducationScore ==
    /\ C9_Rule
    /\ ret.fn = "calculate_education_score" =>
          /\ (/\ str_in(<<"p","h","d">>, lower(call.candidate_education))
              /\ str_in(<<"b","s">>, lower(call.education_requirements))
              /\ KeywordLevel(call.education_requirements) = 2)
                 => ret.value.score = One
          /\ (/\ KeywordLevel(call.candidate_education) = 0
              /\ str_in(<<"m","a","s","t","e","r">>, lower(call.education_requirements))
              /\ KeywordLevel(call.education_requirements) = 3)
                 => ret.value.score = Frac(2, 10)

(* a candidate whose text holds keywords of two levels, the higher one inside
   another word, scored against a requirement of the master family *)
C9_Witness ==
    /\ ret.fn = "calculate_education_score"
    /\ call.candidate_education = <<"D","i","p","l","o","m","a"," ","S","y","s","t","e","m","s">>
    /\ call.education_requirements = <<"M","a","s","t","e","r","s">>
    /\ ret.value.breakdown.candidate_level = 3
    /\ ret.value.score = Frac(8, 10)

Range(s) ==
    {s[i] : i \in 1..Len(s)}

(* the maximal runs of non-whitespace characters of the lower-cased text *)
Tokens(text) ==
    LET s == lower(text)
    IN  {SubSeq(s, a, b) : <<a, b>> \in
            {p \in (1..Len(s)) \X (1..Len(s)) :
                /\ p[1] <= p[2]
                /\ \A i \in p[1]..p[2] : s[i] \notin whitespace
                /\ (p[1] = 1 \/ s[p[1] - 1] \in whitespace)
                /\ (p[2] = Len(s) \/ s[p[2] + 1] \in whitespace)}}

(* C10: a previous role matches iff a lower-cased whitespace token of the job
   title equals a whole lower-cased whitespace token of the role; with m
   matching roles the score is 0.3 for m = 0 and min(1.0, 0.6 + 0.2*m)
   otherwise: 0.8 for one match, 1.0 for two or more. *)
C10_RoleRelevance ==
    ret.fn = "calculate_role_relevance" =>
        LET m == Cardinality({i \in 1..Len(call.previous_roles) :
                    Tokens(call.job_title) \cap Tokens(call.previous_roles[i])
                        # {}})
        IN  /\ ret.value.breakdown.role_matches = m
            /\ m = 0 => ret.value.score = Frac(3, 10)
            /\ m > 0 => ret.value.score = FMin(One, Frac(6 + 2 * m, 10))
            /\ m = 1 => ret.value.score = Frac(8, 10)
            /\ m >= 2 => ret.value.score = One

(* one role sharing a whole token with the title, beside a role that only
   contains a title token as a substring *)
C10_Witness ==
    /\ ret.fn = "calculate_role_relevance"
    /\ call.job_title = <<"D","a","t","a">>
    /\ call.previous_roles = << <<"D","a","t","a","b","a","s","e"," ","A","d","m","i","n">>, <<"s","e","n","i","o","r","\t","d","a","t","a"," "," ","e","n","g","i","n","e","e","r">> >>
    /\ ret.value.breakdown.role_matches = 1
    /\ ret.value.score = Frac(8, 10)

(* the score the ranker computes for the pair of years *)
ScoreAt(candidate_experience, min_experience) ==
    calculate_experience_score(candidate_experience, min_experience).score

(* C27: the experience score is monotone: it does not decrease when
   candidateYears grows by a year and does not increase when minYears grows
   by a year; from a surplus of 2 years on it is 1.0, and wherever the
   requirement is met it equals min(1, 0.8 + 0.1*surplus), the score without
   the 0.3 cap on the bonus. *)
C27_MonotoneExperience ==
    ret.fn = "calculate_experience_score" =>
        LET c == call.candidate_experience
            m == call.min_experience
        IN  /\ FLe(ret.value.score, ScoreAt(c + 1, m))
            /\ FLe(ScoreAt(c, m + 1), ret.value.score)
            /\ FLe(ScoreAt(c - 1, m), ret.value.score)
            /\ FLe(ret.value.score, ScoreAt(c, m - 1))
            /\ c - m >= 2 => ret.value.score = One
            /\ c >= m => ret.value.score
                            = FMin(One, Frac(8 + (c - m), 10))

(* a surplus of exactly two years scores 1.0, above the score of one year
   less *)
C27_Witness ==
    /\ ret.fn = "calculate_experience_score"
    /\ call.candidate_experience - call.min_experience = 2
    /\ ret.value.score = One
    /\ ScoreAt(call.candidate_experience - 1, call.min_experience) # One

---------------------------------------------------------------------------
(* Concurrent and repeated invocations of ranker.rank_candidates.  Every
   thread runs the method's statements in order; its locals are job_description,
   the loop position i and the list ranked_candidates.  returned collects what
   the thread's invocations gave back, each with a note whether another
   invocation was in progress during one of its loop steps. *)

ThreadIds ==
    1..MaxThreads

ConcProfiles ==
    << [skills |-> << <<"P","y">> >>,
        experience_years |-> 2,
        education |-> <<"B","S">>,
        previous_roles |-> << <<"D","e","v">> >>],
       [skills |-> << <<"S","Q","L">> >>,
        experience_years |-> 7,
        education |-> <<"P","h","D">>,
        previous_roles |-> << <<"D","a","t","a"," ","D","e","v">> >>] >>

(* a table of MaxConcCands candidates, the two profiles in turn *)
ConcTables ==
    {table_of([i \in 1..MaxConcCands |->
                  ConcProfiles[((i - 1) % Len(ConcProfiles)) + 1]])}

(* two jobs that rank the two profiles in opposite orders *)
ConcJobs ==
    { [id |-> 10,
       title |-> <<"D","e","v">>,
       required_skills |-> << <<"p","y">> >>,
       preferred_skills |-> << >>,
       min_experience |-> 1,
       education_requirements |-> <<"B","S">>],
      [id |-> 11,
       title |-> <<"D","a","t","a">>,
       required_skills |-> << <<"s","q","l">> >>,
       preferred_skills |-> << <<"p","y">> >>,
       min_experience |-> 5,
       education_requirements |-> <<"M","S">>] }

(* invocations begun so far, by all threads *)
RECURSIVE CallsBegun(_, _)
CallsBegun(ths, t) ==
    IF t > Len(ths)
    THEN 0
    ELSE Len(ths[t].returned) + (IF ths[t].pc = "loop" THEN 1 ELSE 0)
         + CallsBegun(ths, t + 1)

(* ranked_candidates with the list kept from the previous invocation *)
new_ranked_candidates_kept(previous) ==
    previous

(* ranked_candidates = [] *)
new_ranked_candidates(previous) ==
    << >>

(* ranked_candidates.append(candidate_result) on one list shared by all
   threads *)
append_result_shared(ths, t, candidate_result_) ==
    [u \in DOMAIN ths |->
        [ths[u] EXCEPT !.ranked_candidates = Append(@, candidate_result_)]]

(* ranked_candidates.append(candidate_result) on the thread's own list *)
append_result(ths, t, candidate_result_) ==
    [ths EXCEPT ![t].ranked_candidates = Append(@, candidate_result_)]

InitConc ==
    /\ candidates \in ConcTables
    /\ job_descriptions = SAMPLE_JOB_DESCRIPTIONS
    /\ call = NoReturn
    /\ ret = NoReturn
    /\ documents = << >>
    /\ outbox = << >>
    /\ app = NoApp
    /\ threads \in [ThreadIds ->
                      {[pc |-> "idle", job_description |-> j, i |-> 1,
                        ranked_candidates |-> << >>, interleaved |-> FALSE,
                        returned |-> << >>] : j \in ConcJobs}]

(* a thread calls ranker.rank_candidates(job_description) *)
Enter(t) ==
    /\ threads[t].pc = "idle"
    /\ CallsBegun(threads, 1) < MaxCalls
    /\ threads' = [threads EXCEPT
                      ![t].pc = "loop",
                      ![t].i = 1,
                      ![t].interleaved = FALSE,
                      ![t].ranked_candidates = new_ranked_candidates(@)]
    /\ UNCHANGED <<candidates, job_descriptions, call, ret, documents, outbox,
                   app>>

(* one pass of `for candidate in self.candidates` *)
LoopStep(t) ==
    /\ threads[t].pc = "loop"
    /\ threads[t].i <= Len(candidates)
    /\ LET result == candidate_result(candidates[threads[t].i],
                                      threads[t].job_description)
           others == \E u \in ThreadIds : u # t /\ threads[u].pc = "loop"
       IN  threads' = [append_result(threads, t, result) EXCEPT
                          ![t].i = @ + 1,
                          ![t].interleaved = @ \/ others]
    /\ UNCHANGED <<candidates, job_descriptions, call, ret, documents, outbox,
                   app>>

(* the loop is exhausted: ranked_candidates.sort(...); return *)
SortAndReturn(t) ==
    /\ threads[t].pc = "loop"
    /\ threads[t].i > Len(candidates)
    /\ threads' = [threads EXCEPT
                      ![t].pc = "idle",
                      ![t].returned =
                          Append(@, [value |-> sort_reverse(
                                         threads[t].ranked_candidates),
                                     interleaved |-> threads[t].interleaved])]
    /\ UNCHANGED <<candidates, job_descriptions, call, ret, documents, outbox,
                   app>>

NextConc ==
    \E t \in ThreadIds :
        \/ Enter(t)
        \/ LoopStep(t)
        \/ SortAndReturn(t)

SpecConc ==
    InitConc /\ [][NextConc]_vars

(* C11: invocations of rank_candidates on the same candidate table and the
   same job record return identical lists (candidates, order, overall score,
   sub-scores and breakdowns), however many came before. *)
C11_RerunIdentical ==
    \A t \in DOMAIN threads, u \in DOMAIN threads :
        threads[t].job_description = threads[u].job_description =>
            \A k \in 1..Len(threads[t].returned),
               m \in 1..Len(threads[u].returned) :
                threads[t].returned[k].value = threads[u].returned[m].value

(* one thread has run the ranking MaxCalls times, one invocation after the
   other *)
C11_Witness ==
    \E t \in DOMAIN threads :
        /\ Len(threads[t].returned) >= MaxCalls
        /\ \A k \in 1..Len(threads[t].returned) :
              /\ ~threads[t].returned[k].interleaved
              /\ Len(threads[t].returned[k].value) = Len(candidates)
              /\ Len(candidates) >= 2

TablesUnchanged ==
    /\ candidates' = candidates
    /\ job_descriptions' = job_descriptions

AloneResults ==
    \A t \in DOMAIN threads :
        \A k \in 1..Len(threads[t].returned) :
            threads[t].returned[k].value
              = rank_candidates(candidates, threads[t].job_description)

(* C12: under every interleaving of concurrent invocations the candidate table
   and the job table are never modified, and every invocation returns what it
   returns when run alone. *)
C12_ConcurrentRanking ==
    []AloneResults /\ [][TablesUnchanged]_vars

(* two invocations with different jobs that ran interleaved have both
   returned *)
C12_Witness ==
    \E t \in DOMAIN threads, u \in DOMAIN threads :
        /\ t # u
        /\ threads[t].job_description # threads[u].job_description
        /\ \E k \in 1..Len(threads[t].returned) :
              threads[t].returned[k].interleaved
        /\ \E m \in 1..Len(threads[u].returned) :
              threads[u].returned[m].interleaved

---------------------------------------------------------------------------
(* pdf_extraction_tools.py: the string methods and the regular expressions
   used by class PDFExtractor.  Texts are ASCII.  A position is the number of
   characters before it, as in Python. *)

chars_of(s) ==
    {s[i] : i \in 1..Len(s)}

digits ==
    chars_of(<<"0","1","2","3","4","5","6","7","8","9">>)

letters ==
    chars_of(ascii_uppercase) \cup chars_of(ascii_lowercase)

(* the characters \w matches *)
word_chars ==
    letters \cup digits \cup {"_"}

upper_char(c) ==
    IF \E i \in 1..26 : ascii_lowercase[i] = c
    THEN ascii_uppercase[CHOOSE i \in 1..26 : ascii_lowercase[i] = c]
    ELSE c

(* str.upper *)
upper(s) ==
    [i \in 1..Len(s) |-> upper_char(s[i])]

(* str.strip: from the first to the last non-whitespace character *)
strip(s) ==
    LET kept == {i \in 1..Len(s) : s[i] \notin whitespace}
    IN  IF kept = {}
        THEN << >>
        ELSE SubSeq(s, CHOOSE i \in kept : \A j \in kept : i <= j,
                       CHOOSE i \in kept : \A j \in kept : j <= i)

(* str.replace(c, '') for a one-character c *)
remove_char(s, c) ==
    SelectSeq(s, LAMBDA x : x # c)

(* re.sub(r'\s+', ' ', s): the first character of every whitespace run
   becomes a space, the rest of the run goes *)
normalize_spaces(s) ==
    LET kept == SelectSeq(indices(Len(s)),
                          LAMBDA i : ~(/\ s[i] \in whitespace
                                       /\ i > 1
                                       /\ s[i - 1] \in whitespace))
    IN  [k \in 1..Len(kept) |->
            IF s[kept[k]] \in whitespace THEN " " ELSE s[kept[k]]]

(* str.split(sep) for a one-character sep: the pieces between separators,
   empty pieces kept *)
split_on(s, sep) ==
    LET seps == SelectSeq(indices(Len(s)), LAMBDA i : s[i] = sep)
    IN  [k \in 1..(Len(seps) + 1) |->
            SubSeq(s, IF k = 1 THEN 1 ELSE seps[k - 1] + 1,
                      IF k > Len(seps) THEN Len(s) ELSE seps[k] - 1)]

(* str.endswith *)
endswith(s, suffix) ==
    /\ Len(suffix) <= Len(s)
    /\ SubSeq(s, Len(s) - Len(suffix) + 1, Len(s)) = suffix

(* str.startswith *)
startswith(s, prefix) ==
    /\ Len(prefix) <= Len(s)
    /\ SubSeq(s, 1, Len(prefix)) = prefix

(* list(set(lst)): the order of the result is not defined, the model keeps
   the set *)
set_of(lst) ==
    {lst[i] : i \in 1..Len(lst)}

---------------------------------------------------------------------------
(* A compiled pattern is a sequence of items:
     set   - a character class with a greedy repetition min..max (max = -1:
             no upper limit), negated when neg is TRUE
     lit   - a literal string, compared in lower case under re.IGNORECASE
     b     - the assertion \b
     open  - the opening parenthesis of the capturing group
     opt   - (?:items)?
     alt   - (?:items|others)                                              *)

cls(chars, min, max) ==
    [kind |-> "set", chars |-> chars, neg |-> FALSE, min |-> min, max |-> max]

not_cls(chars, min, max) ==
    [kind |-> "set", chars |-> chars, neg |-> TRUE, min |-> min, max |-> max]

(* the literal s, matched case-sensitively *)
lit(s) ==
    [kind |-> "lit", text |-> s, ignorecase |-> FALSE]

(* the literal s under re.IGNORECASE *)
lit_ignorecase(s) ==
    [kind |-> "lit", text |-> s, ignorecase |-> TRUE]

NoMatch ==
    [end |-> -1, group |-> -1]

item_matches(item, c) ==
    IF item.neg THEN c \notin item.chars ELSE c \in item.chars

(* how many characters from pos on the item can take at most: up to the
   first character outside the class, the end of the text or item.max *)
run_length(text, pos, item) ==
    LET left == Len(text) - pos
        limit == IF item.max # -1 /\ item.max < left THEN item.max ELSE left
    IN  IF \A j \in 1..limit : item_matches(item, text[pos + j])
        THEN limit
        ELSE (CHOOSE j \in 1..limit :
                 /\ ~item_matches(item, text[pos + j])
                 /\ \A m \in 1..(j - 1) : item_matches(item, text[pos + m]))
             - 1

(* the literal of the item stands at pos *)
literal_at(text, pos, item) ==
    /\ pos + Len(item.text) <= Len(text)
    /\ \A k \in 1..Len(item.text) :
          IF item.ignorecase
          THEN lower_char(text[pos + k]) = lower_char(item.text[k])
          ELSE text[pos + k] = item.text[k]

(* \b at pos: exactly one of the characters before and after pos is a word
   character *)
word_boundary(text, pos) ==
    (pos >= 1 /\ text[pos] \in word_chars)
      # (pos < Len(text) /\ text[pos + 1] \in word_chars)

(* the match of items at pos that the backtracking matcher finds first: end
   of the match and start of the group, or NoMatch *)
RECURSIVE re_match(_, _, _, _)
RECURSIVE re_try(_, _, _, _, _, _)
re_match(text, pos, items, group) ==
    IF items = << >>
    THEN [end |-> pos, group |-> group]
    ELSE LET item == Head(items)
             rest == Tail(items)
         IN  CASE item.kind = "b" ->
                    IF word_boundary(text, pos)
                    THEN re_match(text, pos, rest, group)
                    ELSE NoMatch
               [] item.kind = "lit" ->
                    IF literal_at(text, pos, item)
                    THEN re_match(text, pos + Len(item.text), rest, group)
                    ELSE NoMatch
               [] item.kind = "open" ->
                    re_match(text, pos, rest, pos)
               [] item.kind = "opt" ->
                    LET taken == re_match(text, pos, item.items \o rest, group)
                    IN  IF taken # NoMatch
                        THEN taken
                        ELSE re_match(text, pos, rest, group)
               [] item.kind = "alt" ->
                    LET first == re_match(text, pos, item.items \o rest,
                                          group)
                    IN  IF first # NoMatch
                        THEN first
                        ELSE re_match(text, pos, item.others \o rest, group)
               [] OTHER ->
                    re_try(text, pos, item, rest, group,
                           run_length(text, pos, item))

(* greedy repetition: the longest run first, then shorter ones *)
re_try(text, pos, item, rest, group, k) ==
    IF k < item.min
    THEN NoMatch
    ELSE LET r == re_match(text, pos + k, rest, group)
         IN  IF r # NoMatch
             THEN r
             ELSE re_try(text, pos, item, rest, group, k - 1)

(* the matches among those starting at the positions in starts, from pos
   on, that do not overlap: the leftmost first, then on from its end *)
RECURSIVE findall_from(_, _, _, _)
findall_from(items, text, starts, pos) ==
    LET ahead == {p \in starts : p >= pos}
    IN  IF ahead = {}
        THEN << >>
        ELSE LET start == CHOOSE p \in ahead : \A q \in ahead : p <= q
                 r == re_match(text, start, items, -1)
             IN  << SubSeq(text,
                           (IF r.group = -1 THEN start ELSE r.group) + 1,
                           r.end) >>
                 \o findall_from(items, text, starts,
                                 IF r.end = start THEN start + 1 ELSE r.end)

(* pattern.findall(text): the non-overlapping matches from left to right; a
   match stands for its group when the pattern has one (the group of every
   pattern here ends where the match ends) *)
findall(items, text) ==
    findall_from(items, text,
                 {p \in 0..Len(text) : re_match(text, p, items, -1) # NoMatch},
                 0)

---------------------------------------------------------------------------
(* PDFExtractor.__init__: the compiled patterns. *)

alnum ==
    letters \cup digits

\* r'(?:https?://)?(?:www\.)?[a-zA-Z0-9][a-zA-Z0-9-]*[a-zA-Z0-9]*\.[a-zA-Z]{2,}(?:/[^\s]*)?'
\* compiled with re.IGNORECASE
url_pattern ==
    << [kind |-> "opt",
        items |-> << lit_ignorecase(<<"h","t","t","p">>), cls({"s", "S"}, 0, 1),
                     lit(<<":","/","/">>) >>],
       [kind |-> "opt", items |-> << lit_ignorecase(<<"w","w","w",".">>) >>],
       cls(alnum, 1, 1),
       cls(alnum \cup {"-"}, 0, -1),
       cls(alnum, 0, -1),
       cls({"."}, 1, 1),
       cls(letters, 2, -1),
       [kind |-> "opt",
        items |-> << cls({"/"}, 1, 1), not_cls(whitespace, 0, -1) >>] >>

(* the characters of the class of strict_url_pattern: letters, digits, the
   range from '$' to '_' and the characters !*\(), *)
strict_url_chars ==
    alnum \cup chars_of(<<"%","&","'","(",")","*","+",",","-",".","/",":",";","<","=",">","?","@","[","]","^","_","!">>) \cup {"$", "\\"}

\* r'http[s]?://(?:[a-zA-Z]|[0-9]|[$-_@.&+]|[!*\\(\\),]|(?:%[0-9a-fA-F][0-9a-fA-F]))+'
\* the last alternative is never needed: '%' is in the range $-_
strict_url_pattern ==
    << lit(<<"h","t","t","p">>), cls({"s"}, 0, 1), lit(<<":","/","/">>),
       cls(strict_url_chars, 1, -1) >>

\* r'\b[A-Za-z0-9._%+-]+@[A-Za-z0-9.-]+\.[A-Z|a-z]{2,}\b'
email_pattern ==
    << [kind |-> "b"],
       cls(alnum \cup chars_of(<<".","_","%","+","-">>), 1, -1),
       cls({"@"}, 1, 1),
       cls(alnum \cup chars_of(<<".","-">>), 1, -1),
       cls({"."}, 1, 1),
       cls(letters \cup {"|"}, 2, -1),
       [kind |-> "b"] >>

\* r'(\+?\d{1,3}[-.\s]*\d{2,4}[-.\s]*\d{2,4}[-.\s]*\d{2,4})'
phone_pattern ==
    << [kind |-> "open"],
       cls({"+"}, 0, 1),
       cls(digits, 1, 3),
       cls(chars_of(<<"-",".">>) \cup whitespace, 0, -1),
       cls(digits, 2, 4),
       cls(chars_of(<<"-",".">>) \cup whitespace, 0, -1),
       cls(digits, 2, 4),
       cls(chars_of(<<"-",".">>) \cup whitespace, 0, -1),
       cls(digits, 2, 4) >>

---------------------------------------------------------------------------
(* pdf_extraction_tools.py: class PDFExtractor.  A file is a record
   [path, pages, broken, message]: pages are the texts page.get_text() gives,
   broken says that fitz.open raises for the file, with str(e) = message.
   A method's outcome is [raised, value]: the value it returns, or raised =
   TRUE when an exception leaves the method. *)

file_at(files, pdf_path) ==
    files[CHOOSE i \in 1..Len(files) : files[i].path = pdf_path]

(* for page_num in range(len(doc)): text += page.get_text(); text += "\n\n" *)
RECURSIVE pages_text(_, _)
pages_text(pages, page_num) ==
    IF page_num > Len(pages)
    THEN << >>
    ELSE pages[page_num] \o << "\n", "\n" >> \o pages_text(pages, page_num + 1)

extract_text_from_pdf(files, pdf_path) ==
    LET doc == file_at(files, pdf_path)
    IN  IF doc.broken
        THEN <<"E","r","r","o","r"," ","e","x","t","r","a","c","t","i","n","g"," ","t","e","x","t"," ","f","r","o","m"," ">> \o pdf_path \o <<":"," ">>
             \o doc.message
        ELSE strip(pages_text(doc.pages, 1))

university_keywords ==
    << <<"u","n","i","-">>, <<"u","n","i","v","e","r","s","i","t","y">>, <<"e","d","u">>, <<"a","c",".">>, <<"i","n","f","o","r","m","a","t","i","k">>, <<"c","s",".">> >>

(* any(keyword in email_lower for keyword in university_keywords) *)
is_university(email) ==
    \E k \in 1..Len(university_keywords) :
        str_in(university_keywords[k], lower(email))

personal_emails_of(all_emails) ==
    SelectSeq(all_emails, LAMBDA email : ~is_university(email))

(* emails_to_use that falls back to every email found *)
emails_to_use_all(personal_emails, all_emails) ==
    IF personal_emails # << >> THEN personal_emails ELSE all_emails

(* emails_to_use that keeps every email found beside the personal ones *)
emails_to_use_merged(personal_emails, all_emails) ==
    IF personal_emails # << >>
    THEN all_emails
    ELSE IF all_emails = << >> THEN << >> ELSE SubSeq(all_emails, 1, 1)

(* personal_emails if personal_emails else all_emails[:1] *)
emails_to_use(personal_emails, all_emails) ==
    IF personal_emails # << >>
    THEN personal_emails
    ELSE IF all_emails = << >> THEN << >> ELSE SubSeq(all_emails, 1, 1)

(* re.sub(r'\s+', ' ', phone.strip()) *)
cleaned_phone_of(phone) ==
    normalize_spaces(strip(phone))

(* len(cleaned_phone.replace(' ', '').replace('-', '').replace('.', '')) *)
stripped_length(cleaned_phone) ==
    Len(remove_char(remove_char(remove_char(cleaned_phone, " "), "-"), "."))

is_complete(cleaned_phone) ==
    stripped_length(cleaned_phone) >= 10

mobile_patterns ==
    << <<"1","7","6">>, <<"1","7","7">>, <<"1","7","8">>, <<"1","7","9">>, <<"1","5","1">>, <<"1","5","2">>, <<"1","5","7">>,
       <<"1","5","9">> >>

is_mobile(cleaned_phone) ==
    \E k \in 1..Len(mobile_patterns) : str_in(mobile_patterns[k], cleaned_phone)

(* the accepted phones, in text order *)
cleaned_phones_of(phones) ==
    SelectSeq([i \in 1..Len(phones) |-> cleaned_phone_of(phones[i])],
              is_complete)

(* phones_to_use that returns mobile and office phones together *)
phones_to_use_both(personal_phones, office_phones) ==
    personal_phones \o office_phones

(* personal_phones if personal_phones else office_phones *)
phones_to_use(personal_phones, office_phones) ==
    IF personal_phones # << >> THEN personal_phones ELSE office_phones

\* kw + r',?\s*(.+)', used with re.IGNORECASE | re.MULTILINE
signature_pattern(kw) ==
    << lit_ignorecase(kw), cls({","}, 0, 1), cls(whitespace, 0, -1),
       [kind |-> "open"], not_cls({"\n"}, 1, -1) >>

signature_patterns ==
    << signature_pattern(<<"b","e","s","t"," ","r","e","g","a","r","d","s">>), signature_pattern(<<"s","i","n","c","e","r","e","l","y">>),
       signature_pattern(<<"r","e","g","a","r","d","s">>), signature_pattern(<<"y","o","u","r","s">>),
       signature_pattern(<<"t","h","a","n","k"," ","y","o","u">>), signature_pattern(<<"c","h","e","e","r","s">>) >>

signature_stop_words ==
    << <<"s","i","n","c","e","r","e","l","y">>, <<"r","e","g","a","r","d","s">>, <<"b","e","s","t">>, <<"y","o","u","r","s">>, <<"t","r","u","l","y">>,
       <<"f","a","i","t","h","f","u","l","l","y">> >>

title_words ==
    << <<"m","a","s","t","e","r">>, <<"o","f">>, <<"s","c","i","e","n","c","e","s">>, <<"b","a","c","h","e","l","o","r">>, <<"p","h","d">>, <<"d","r",".">>,
       <<"p","r","o","f",".">>, <<"m","s","c">>, <<"b","s","c">>, <<"m","s","c",".">>, <<"b","s","c",".">> >>

(* [word for word in words if word.lower() not in stop] *)
filter_words(words, stop) ==
    SelectSeq(words, LAMBDA word : ~list_in(lower(word), stop))

(* the name a signature match gives, or "" *)
name_of_match(match) ==
    LET words == split(strip(match))
        filtered_words == filter_words(words, signature_stop_words)
    IN  IF Len(words) >= 2 /\ Len(words) <= 4 /\ Len(filtered_words) >= 2
        THEN upper(join_words(filtered_words))
        ELSE << >>

(* the name found, or what the search gives further on *)
or_else(potential_name, further) ==
    IF potential_name # << >> THEN potential_name ELSE further

(* for match in matches: ... break *)
RECURSIVE name_of_matches(_, _)
name_of_matches(matches, i) ==
    IF i > Len(matches)
    THEN << >>
    ELSE or_else(name_of_match(matches[i]), name_of_matches(matches, i + 1))

(* for pattern in signature_patterns: ... if potential_name: break *)
RECURSIVE signature_name(_, _)
signature_name(text_lower, p) ==
    IF p > Len(signature_patterns)
    THEN << >>
    ELSE or_else(name_of_matches(findall(signature_patterns[p], text_lower),
                                 1),
                 signature_name(text_lower, p + 1))

(* the name a line among the first lines gives, or "" *)
name_of_line(raw_line) ==
    LET line == strip(raw_line)
        words == split(line)
        filtered_words == filter_words(words, title_words)
    IN  IF /\ line # << >>
           /\ Len(words) >= 2
           /\ \A i \in 1..Len(line) : line[i] \notin digits
           /\ ~str_in(<<"@">>, line)
           /\ ~str_in(<<"h","t","t","p">>, lower(line))
           /\ ~endswith(lower(line), <<"g","e","r","m","a","n","y">>)
           /\ ~endswith(lower(line), <<"u","n","i","v","e","r","s","i","t","y">>)
           /\ \A w \in 1..Len(words) : Len(words[w]) > 1
           /\ Len(filtered_words) >= 2
        THEN join_words(filtered_words)
        ELSE << >>

(* for line in lines[:5]: ... break *)
RECURSIVE first_lines_name(_, _)
first_lines_name(lines, i) ==
    IF i > Len(lines) \/ i > 5
    THEN << >>
    ELSE or_else(name_of_line(lines[i]), first_lines_name(lines, i + 1))

(* potential_name with the first lines consulted before the signature *)
potential_name_lines_first(text) ==
    or_else(first_lines_name(split_on(text, "\n"), 1),
            signature_name(lower(text), 1))

(* the signature patterns first; if not potential_name: the first lines *)
potential_name_of(text) ==
    or_else(signature_name(lower(text), 1),
            first_lines_name(split_on(text, "\n"), 1))

(* the except clause of extract_contact_info, raising again *)
contact_info_except_raise(pdf_path, message) ==
    [raised |-> TRUE, value |-> message]

(* except Exception as e: return {"error": ..., "file_path": pdf_path} *)
contact_info_except(pdf_path, message) ==
    [raised |-> FALSE,
     value |-> [error |-> <<"E","r","r","o","r"," ","e","x","t","r","a","c","t","i","n","g"," ","c","o","n","t","a","c","t"," ","i","n","f","o"," ","f","r","o","m"," ">> \o pdf_path
                          \o <<":"," ">> \o message,
                file_path |-> pdf_path]]

(* the emails to return among all_emails *)
emails_of(all_emails) ==
    emails_to_use(personal_emails_of(all_emails), all_emails)

(* the phones to return among the accepted ones *)
phones_of(cleaned_phones) ==
    phones_to_use(SelectSeq(cleaned_phones, is_mobile),
                  SelectSeq(cleaned_phones, LAMBDA phone : ~is_mobile(phone)))

(* the record the try block returns for the text of the file *)
contact_info_of(pdf_path, text) ==
    [name |-> potential_name_of(text),
     emails |-> set_of(emails_of(findall(email_pattern, text))),
     phones |-> set_of(phones_of(cleaned_phones_of(findall(phone_pattern,
                                                           text)))),
     urls |-> set_of(findall(url_pattern, text)),
     file_path |-> pdf_path]

(* fault: an exception with str(e) = message is raised inside the try block
   after the text has been read *)
extract_contact_info(files, pdf_path, fault, message) ==
    IF fault
    THEN contact_info_except(pdf_path, message)
    ELSE [raised |-> FALSE,
          value |-> contact_info_of(pdf_path,
                                    extract_text_from_pdf(files, pdf_path))]

\* re.findall(r'scholar\.google\.com[^\s]*', text, re.IGNORECASE)
scholar_pattern ==
    << lit_ignorecase(<<"s","c","h","o","l","a","r",".","g","o","o","g","l","e",".","c","o","m">>), not_cls(whitespace, 0, -1) >>

\* r'(?:github\.com/[^\s]+|[a-zA-Z0-9-]+\.github\.io(?:[^\s]*)?)', re.IGNORECASE
github_pattern ==
    << [kind |-> "alt",
        items |-> << lit_ignorecase(<<"g","i","t","h","u","b",".","c","o","m","/">>),
                     not_cls(whitespace, 1, -1) >>,
        others |-> << cls(alnum \cup {"-"}, 1, -1),
                      lit_ignorecase(<<".","g","i","t","h","u","b",".","i","o">>),
                      [kind |-> "opt",
                       items |-> << not_cls(whitespace, 0, -1) >>] >>] >>

\* re.findall(r'linkedin\.com[^\s]*', text, re.IGNORECASE)
linkedin_pattern ==
    << lit_ignorecase(<<"l","i","n","k","e","d","i","n",".","c","o","m">>), not_cls(whitespace, 0, -1) >>

(* the platform the loop over combined_urls files the url under, or "none" *)
platform_of(url) ==
    LET url_lower == lower(url)
    IN  IF str_in(<<"s","c","h","o","l","a","r">>, url_lower) /\ str_in(<<"g","o","o","g","l","e">>, url_lower)
        THEN "google_scholar"
        ELSE IF \/ str_in(<<"g","i","t","h","u","b",".","c","o","m">>, url_lower)
                \/ endswith(url_lower, <<".","g","i","t","h","u","b",".","i","o">>)
             THEN "github"
             ELSE IF str_in(<<"l","i","n","k","e","d","i","n",".","c","o","m">>, url_lower)
                  THEN "linkedin"
                  ELSE "none"

(* the url as it is found, no protocol added *)
with_protocol_missing(url) ==
    url

(* if not url.startswith(('http://', 'https://')): url = 'https://' + url *)
with_protocol(url) ==
    IF startswith(url, <<"h","t","t","p",":","/","/">>) \/ startswith(url, <<"h","t","t","p","s",":","/","/">>)
    THEN url
    ELSE <<"h","t","t","p","s",":","/","/">> \o url

(* the test a cleaned url of the platform must pass *)
is_complete_url(platform, url) ==
    LET url_lower == lower(url)
    IN  CASE platform = "google_scholar" ->
                str_in(<<"s","c","h","o","l","a","r",".","g","o","o","g","l","e",".","c","o","m">>, url_lower)
          [] platform = "github" ->
                \/ str_in(<<"g","i","t","h","u","b",".","c","o","m","/">>, url_lower)
                \/ str_in(<<".","g","i","t","h","u","b",".","i","o">>, url_lower)
          [] platform = "linkedin" ->
                str_in(<<"l","i","n","k","e","d","i","n",".","c","o","m">>, url_lower)

(* list(set(cleaned_urls)) for the urls collected for the platform *)
cleaned_urls_of(platform, urls) ==
    {url \in {with_protocol(u) : u \in urls} : is_complete_url(platform, url)}

(* what the platform has collected: the matches of its own pattern and the
   urls among combined_urls filed under it *)
collected_urls(platform, matches, combined_urls) ==
    set_of(matches) \cup {url \in combined_urls : platform_of(url) = platform}

platform_urls_of(text, combined_urls) ==
    [google_scholar |->
        cleaned_urls_of("google_scholar",
                        collected_urls("google_scholar",
                                       findall(scholar_pattern, text),
                                       combined_urls)),
     github |->
        cleaned_urls_of("github",
                        collected_urls("github",
                                       findall(github_pattern, text),
                                       combined_urls)),
     linkedin |->
        cleaned_urls_of("linkedin",
                        collected_urls("linkedin",
                                       findall(linkedin_pattern, text),
                                       combined_urls))]

(* except Exception as e: the error and three empty lists *)
platform_urls_except(pdf_path, message) ==
    [error |-> <<"E","r","r","o","r"," ","e","x","t","r","a","c","t","i","n","g"," ","p","l","a","t","f","o","r","m"," ","U","R","L","s"," ","f","r","o","m"," ">> \o pdf_path
               \o <<":"," ">> \o message,
     google_scholar |-> {},
     github |-> {},
     linkedin |-> {}]

(* combined_urls = list(set(all_urls + strict_urls)) *)
combined_urls_of(text) ==
    set_of(findall(url_pattern, text) \o findall(strict_url_pattern, text))

(* fault: an exception with str(e) = message is raised inside the try block *)
extract_platform_urls(files, pdf_path, fault, message) ==
    IF fault
    THEN platform_urls_except(pdf_path, message)
    ELSE platform_urls_of(extract_text_from_pdf(files, pdf_path),
                          combined_urls_of(extract_text_from_pdf(files,
                                                                 pdf_path)))

default_skill_keywords ==
    << <<"p","y","t","h","o","n">>, <<"j","a","v","a">>, <<"j","a","v","a","s","c","r","i","p","t">>, <<"t","y","p","e","s","c","r","i","p","t">>, <<"r","e","a","c","t">>,
       <<"a","n","g","u","l","a","r">>, <<"v","u","e">>, <<"n","o","d","e",".","j","s">>, <<"e","x","p","r","e","s","s">>, <<"d","j","a","n","g","o">>, <<"f","l","a","s","k">>,
       <<"f","a","s","t","a","p","i">>, <<"s","q","l">>, <<"m","o","n","g","o","d","b">>, <<"p","o","s","t","g","r","e","s","q","l">>, <<"m","y","s","q","l">>,
       <<"r","e","d","i","s">>, <<"d","o","c","k","e","r">>, <<"k","u","b","e","r","n","e","t","e","s">>, <<"a","w","s">>, <<"a","z","u","r","e">>, <<"g","c","p">>,
       <<"g","i","t">>, <<"j","e","n","k","i","n","s">>, <<"c","i","/","c","d">>, <<"m","a","c","h","i","n","e"," ","l","e","a","r","n","i","n","g">>,
       <<"d","a","t","a"," ","s","c","i","e","n","c","e">>, <<"a","r","t","i","f","i","c","i","a","l"," ","i","n","t","e","l","l","i","g","e","n","c","e">>, <<"t","e","n","s","o","r","f","l","o","w">>,
       <<"p","y","t","o","r","c","h">>, <<"p","a","n","d","a","s">>, <<"n","u","m","p","y">>, <<"h","t","m","l">>, <<"c","s","s">>, <<"b","o","o","t","s","t","r","a","p">>,
       <<"t","a","i","l","w","i","n","d">>, <<"s","c","s","s">>, <<"w","e","b","p","a","c","k">>, <<"a","p","i">>, <<"r","e","s","t">>, <<"g","r","a","p","h","q","l">>,
       <<"m","i","c","r","o","s","e","r","v","i","c","e","s">>, <<"a","g","i","l","e">>, <<"s","c","r","u","m">>, <<"d","e","v","o","p","s">> >>

(* an optional argument: left out (None) or given *)
None ==
    [none |-> TRUE]

Some(value) ==
    [none |-> FALSE, value |-> value]

(* skill in text, the skill taken as it is written *)
skill_found_exact(skill, text) ==
    str_in(skill, text)

(* skill.lower() in text *)
skill_found(skill, text) ==
    str_in(lower(skill), text)

(* for skill in skill_keywords: if ...: found_skills.append(skill) *)
found_skills_of(skill_keywords, text) ==
    SelectSeq(skill_keywords, LAMBDA skill : skill_found(skill, text))

extract_skills_keywords(files, pdf_path, skill_keywords) ==
    found_skills_of(IF skill_keywords.none
                    THEN default_skill_keywords
                    ELSE skill_keywords.value,
                    lower(extract_text_from_pdf(files, pdf_path)))

(* os.path.basename: what follows the last '/' *)
RECURSIVE basename_from(_, _)
basename_from(path, i) ==
    IF i < 1 \/ path[i] = "/"
    THEN SubSeq(path, i + 1, Len(path))
    ELSE basename_from(path, i - 1)

basename(path) ==
    basename_from(path, Len(path))

PreviewLimit == 500

(* text_preview_of with len(text) >= 500 as the test *)
text_preview_of_inclusive(text) ==
    IF Len(text) >= PreviewLimit
    THEN SubSeq(text, 1, PreviewLimit) \o <<".",".",".">>
    ELSE text

(* text[:500] + "..." if len(text) > 500 else text *)
text_preview_of(text) ==
    IF Len(text) > PreviewLimit
    THEN SubSeq(text, 1, PreviewLimit) \o <<".",".",".">>
    ELSE text

(* except Exception as e: return {"filename", "file_path", "error"} *)
summarize_except(pdf_path, message) ==
    [filename |-> basename(pdf_path),
     file_path |-> pdf_path,
     error |-> <<"E","r","r","o","r"," ","s","u","m","m","a","r","i","z","i","n","g"," ">> \o pdf_path \o <<":"," ">> \o message]

(* fault names where an exception is raised: "none", "contact_info" (inside
   the try block of extract_contact_info) or "summary" (in the try block of
   summarize_pdf itself) *)
summary_of(pdf_path, text, contact_info, skills, fault, message) ==
    IF fault = "summary" \/ contact_info.raised
    THEN summarize_except(pdf_path, message)
    ELSE [filename |-> basename(pdf_path),
          file_path |-> pdf_path,
          contact_info |-> contact_info.value,
          skills_found |-> skills,
          statistics |-> [word_count |-> Len(split(text)),
                          line_count |-> Len(split_on(text, "\n")),
                          text_length |-> Len(text)],
          text_preview |-> text_preview_of(text)]

summarize_pdf(files, pdf_path, fault, message) ==
    summary_of(pdf_path,
               extract_text_from_pdf(files, pdf_path),
               extract_contact_info(files, pdf_path, fault = "contact_info",
                                    message),
               extract_skills_keywords(files, pdf_path, None),
               fault, message)

(* "error" in summary *)
has_error(summary) ==
    "error" \in DOMAIN summary

(* one pass of the loop of summarize_all_pdfs_in_directory: what it adds to
   result for the file, the formatted lines taken as the values they show *)
entry_of(i, pdf_path, summary) ==
    IF has_error(summary)
    THEN [index |-> i, filename |-> basename(pdf_path),
          error |-> summary.error]
    ELSE [index |-> i, filename |-> basename(pdf_path),
          name |-> summary.contact_info.name,
          emails |-> summary.contact_info.emails,
          phones |-> summary.contact_info.phones,
          urls |-> summary.contact_info.urls,
          skills |-> SubSeq(summary.skills_found, 1,
                            IF Len(summary.skills_found) > 10
                            THEN 10 ELSE Len(summary.skills_found)),
          more_skills |-> IF Len(summary.skills_found) > 10
                          THEN Len(summary.skills_found) - 10 ELSE 0,
          word_count |-> summary.statistics.word_count,
          line_count |-> summary.statistics.line_count]

directory_entry(files, i) ==
    entry_of(i, files[i].path,
             summarize_pdf(files, files[i].path, "none", << >>))

(* summarize_all_pdfs_in_directory over the files glob found *)
summarize_all_pdfs_in_directory(files) ==
    IF files = << >>
    THEN [found |-> 0, entries |-> << >>]
    ELSE [found |-> Len(files),
          entries |-> [i \in 1..Len(files) |-> directory_entry(files, i)]]

---------------------------------------------------------------------------
(* The extractor and its operations.  documents holds the files the call can
   reach: the file at pdf_path, or the files glob finds in the directory. *)

RECURSIVE join_lines(_)
join_lines(lines) ==
    IF lines = << >>
    THEN << >>
    ELSE IF Len(lines) = 1
         THEN Head(lines)
         ELSE Head(lines) \o << "\n" >> \o join_lines(Tail(lines))

LinePool ==
    { <<"J","a","n","e"," ","D","o","e">>,
      <<"C","o","n","t","a","c","t",":"," ","j","a","n","e",".","d","o","e","@","g","m","a","i","l",".","c","o","m"," ","o","r"," ","j",".","d","o","e","@","u","n","i","v","e","r","s","i","t","y",".","e","d","u">>,
      <<"a","@","c","s",".","x",".","o","r","g"," ","b","@","u","n","i","-","y",".","d","e">>,
      <<"B","e","s","t"," ","r","e","g","a","r","d","s",",">>,
      <<"S","i","n","c","e","r","e","l","y",","," ","J","o","h","n"," ","S","m","i","t","h">>,
      <<"+","4","9"," ","1","7","6"," ","1","2","3","4"," ","5","6","7","8"," ","o","r"," ","0","3","0","-","1","2","3","4",".","5","6","7","8">>,
      <<"T","e","l"," ","0","3","0"," ","1","2","3","4"," ","5","6","7","8">>,
      <<"+","1","2"," ","3","4","5"," ","6","7"," ","8","9">> }

good_file(path, pages) ==
    [path |-> path, pages |-> pages, broken |-> FALSE, message |-> << >>]

broken_file(path, message) ==
    [path |-> path, pages |-> << >>, broken |-> TRUE, message |-> message]

(* one-page files made of up to MaxLines lines *)
LineFiles ==
    {good_file(<<".","/","r","e","s","u","m","e","s","/","c","v",".","p","d","f">>, << join_lines(ls) >>) :
        ls \in SeqUpTo(LinePool, MaxLines)}

(* a text of n characters in words of seven letters *)
long_text(n) ==
    [i \in 1..n |-> IF i % 8 = 0 THEN " " ELSE "x"]

(* files beside those: no page, several pages, a name on the sixth line
   only, titles and skills, a keyword inside a personal address, an address
   with '|', a first line and a signature that both give a name, texts of
   PreviewLimit characters and one more, files fitz cannot open *)
EdgeFiles ==
    { good_file(<<"e","m","p","t","y",".","p","d","f">>, << >>),
      good_file(<<"/","h","o","m","e","/","u","/","t","w","o"," ","p","a","g","e","s",".","p","d","f">>,
                << <<" ","D","r","."," ","M","a","x"," ","M","u","s","t","e","r","m","a","n","n"," ","\n"," ","T","e","c","h","n","i","c","a","l"," ","U","n","i","v","e","r","s","i","t","y">>,
                   <<"p","y","t","h","o","n",","," ","N","o","d","e",".","j","s"," ","a","n","d"," ","R","E","S","T"," ","a","p","i","\n","T","h","a","n","k"," ","y","o","u","\t","A","d","a"," ","B"," ","L","o","v","e","l","a","c","e">> >>),
      good_file(<<".","/","r","e","s","u","m","e","s","/","l","a","t","e",".","p","d","f">>,
                << <<"C","V","\n","2","0","2","4","\n","1","\n","2","\n","3","\n","J","a","n","e"," ","D","o","e","\n","p","h","o","n","e"," ","1","2","3","4","5"," ","6","7","8","9">> >>),
      good_file(<<".","/","r","e","s","u","m","e","s","/","m","a","i","l",".","p","d","f">>,
                << <<"E","d","u","a","r","d","o",".","R","u","i","z","@","G","m","a","i","l",".","c","o","m"," ","x","_","y","@","b",".","c","o","|","m",","," ","z","@","q",".","i","o","\n","R","e","g","a","r","d","s"," ","y","o","u","r","s"," ","t","r","u","l","y">> >>),
      good_file(<<".","/","r","e","s","u","m","e","s","/","s","i","g",".","p","d","f">>,
                << <<"J","a","n","e"," ","D","o","e","\n","B","e","r","l","i","n",","," ","G","e","r","m","a","n","y","\n","\n","B","e","s","t"," ","r","e","g","a","r","d","s",",","\n","J","o","h","n"," ","S","m","i","t","h">> >>),
      good_file(<<".","/","r","e","s","u","m","e","s","/","s","h","o","r","t",".","p","d","f">>, << <<"S","i","n","c","e","r","e","l","y"," ","y","o","u","r","s">> >>),
      good_file(<<".","/","r","e","s","u","m","e","s","/","p","5","0","0",".","p","d","f">>, << long_text(PreviewLimit) >>),
      good_file(<<".","/","r","e","s","u","m","e","s","/","p","5","0","1",".","p","d","f">>, << long_text(PreviewLimit + 1) >>),
      broken_file(<<".","/","r","e","s","u","m","e","s","/","b","r","o","k","e","n",".","p","d","f">>, <<"c","a","n","n","o","t"," ","o","p","e","n"," ","b","r","o","k","e","n"," ","d","o","c","u","m","e","n","t">>),
      broken_file(<<".","/","r","e","s","u","m","e","s","/","b","a","d",".","p","d","f">>, <<"F","a","i","l","e","d"," ","t","o"," ","o","p","e","n"," ","f","i","l","e"," ","1","2","3","4","5"," ","6","7","8","9","0",".">>) }

(* lines that name profiles on the three platforms *)
PlatformLines ==
    { <<"g","i","t","h","u","b",".","c","o","m","/","a","l","i","c","e"," ","s","c","h","o","l","a","r",".","g","o","o","g","l","e",".","c","o","m","/","c","i","t","a","t","i","o","n","s","?","u","s","e","r","=","x","y","z">>,
      <<"C","o","d","e",":"," ","h","t","t","p",":","/","/","g","i","t","h","u","b",".","c","o","m","/","a","l","i","c","e">>,
      <<"h","t","t","p","s",":","/","/","w","w","w",".","l","i","n","k","e","d","i","n",".","c","o","m","/","i","n","/","b","o","b">>,
      <<"H","T","T","P","S",":","/","/","G","i","t","H","u","b",".","c","o","m","/","A","l","i","c","e",",">>,
      <<"a","l","i","c","e",".","g","i","t","h","u","b",".","i","o"," ","a","n","d"," ","g","i","t","h","u","b">>,
      <<"s","c","h","o","l","a","r",".","g","o","o","g","l","e"," ","o","r"," ","h","t","t","p",":","/","/","s","c","h","o","l","a","r",".","g","o","o","g","l","e",".","c","o","m","/","x">>,
      <<"L","i","n","k","e","d","I","n",".","c","o","m","/","i","n","/","x"," ","j","a","n","e","@","l","i","n","k","e","d","i","n",".","c","o","m">>,
      <<"J","a","n","e"," ","D","o","e">> }

PlatformFiles ==
    {good_file(<<".","/","r","e","s","u","m","e","s","/","l","i","n","k","s",".","p","d","f">>, << join_lines(ls) >>) :
        ls \in SeqUpTo(PlatformLines, MaxLines)}

Documents ==
    LineFiles \cup EdgeFiles \cup PlatformFiles

(* the files of a directory *)
DirectoryFiles ==
    { good_file(<<".","/","r","e","s","u","m","e","s","/","a",".","p","d","f">>, << <<"J","a","n","e"," ","D","o","e","\n","j","a","n","e","@","d","o","e",".","o","r","g">> >>),
      good_file(<<".","/","r","e","s","u","m","e","s","/","b",".","p","d","f">>, << <<"C","h","e","e","r","s",","," ","B","o","b"," ","R","a","y">>, <<"g","i","t">> >>),
      broken_file(<<".","/","r","e","s","u","m","e","s","/","c",".","p","d","f">>, <<"c","a","n","n","o","t"," ","o","p","e","n"," ","b","r","o","k","e","n"," ","d","o","c","u","m","e","n","t">>),
      broken_file(<<".","/","r","e","s","u","m","e","s","/","d",".","p","d","f">>, <<"n","o"," ","o","b","j","e","c","t","s"," ","f","o","u","n","d">>) }

(* glob.glob: up to MaxFiles different files, in any order *)
Directories ==
    {fs \in SeqUpTo(DirectoryFiles, MaxFiles) :
        \A i \in 1..Len(fs), j \in 1..Len(fs) : i # j => fs[i] # fs[j]}

fault_message ==
    <<"o","u","t"," ","o","f"," ","m","e","m","o","r","y">>

ContactCalls(file) ==
    {[fn |-> "extract_contact_info", pdf_path |-> file.path, fault |-> f] :
        f \in IF file \in EdgeFiles THEN BOOLEAN ELSE {FALSE}}

PlatformCalls(file) ==
    {[fn |-> "extract_platform_urls", pdf_path |-> file.path, fault |-> f] :
        f \in IF file \in EdgeFiles THEN BOOLEAN ELSE {FALSE}}

SummarizeCalls(file) ==
    {[fn |-> "summarize_pdf", pdf_path |-> file.path, fault |-> f] :
        f \in IF file \in EdgeFiles
              THEN {"none", "contact_info", "summary"}
              ELSE {"none"}}

(* vocabularies a caller passes as skill_keywords *)
SkillVocabularies ==
    { << <<"P","y","t","h","o","n">>, <<"G","M","A","I","L">>, <<"d","o","e">>, <<"R","e","g","a","r","d","s">>, <<"g","m","a","i","l">>, <<"G","o">> >>,
      << <<"r","e","s","t"," ","A","P","I">>, <<"S","m","i","t","h">>, <<"J","a","n","e"," ","D","o","e">>, <<"1","7","6">>, <<"S","m","i","t","h">> >>,
      << >> }

SkillsKeywordsCalls(file) ==
    {[fn |-> "extract_skills_keywords", pdf_path |-> file.path,
      skill_keywords |-> v] :
        v \in {None} \cup {Some(vocabulary) : vocabulary \in SkillVocabularies}}

DirectoryCall ==
    [fn |-> "summarize_all_pdfs_in_directory"]

(* pdf_extractor = PDFExtractor(): the caller is about to use one of its
   methods on a file, or the directory tool on a directory *)
InitExtract ==
    /\ candidates = CANDIDATES
    /\ job_descriptions = SAMPLE_JOB_DESCRIPTIONS
    /\ threads = << >>
    /\ ret = NoReturn
    /\ outbox = << >>
    /\ app = NoApp
    /\ \/ \E file \in LineFiles \cup EdgeFiles :
             /\ documents = << file >>
             /\ call \in ContactCalls(file) \cup SummarizeCalls(file)
                         \cup SkillsKeywordsCalls(file)
       \/ \E file \in PlatformFiles \cup EdgeFiles :
             /\ documents = << file >>
             /\ call \in PlatformCalls(file)
       \/ /\ documents \in Directories
          /\ call = DirectoryCall

(* pdf_extractor.extract_contact_info(pdf_path) *)
ExtractContactInfo ==
    /\ call.fn = "extract_contact_info"
    /\ ret = NoReturn
    /\ LET outcome == extract_contact_info(documents, call.pdf_path,
                                           call.fault, fault_message)
       IN  ret' = [fn |-> call.fn, raised |-> outcome.raised,
                   value |-> outcome.value]
    /\ UNCHANGED <<candidates, job_descriptions, call, threads, documents,
                   outbox, app>>

(* pdf_extractor.summarize_pdf(pdf_path) *)
SummarizePdf ==
    /\ call.fn = "summarize_pdf"
    /\ ret = NoReturn
    /\ ret' = [fn |-> call.fn,
               value |-> summarize_pdf(documents, call.pdf_path, call.fault,
                                       fault_message)]
    /\ UNCHANGED <<candidates, job_descriptions, call, threads, documents,
                   outbox, app>>

(* pdf_extractor.extract_platform_urls(pdf_path) *)
ExtractPlatformUrls ==
    /\ call.fn = "extract_platform_urls"
    /\ ret = NoReturn
    /\ ret' = [fn |-> call.fn,
               value |-> extract_platform_urls(documents, call.pdf_path,
                                               call.fault, fault_message)]
    /\ UNCHANGED <<candidates, job_descriptions, call, threads, documents,
                   outbox, app>>

(* pdf_extractor.extract_skills_keywords(pdf_path, skill_keywords) *)
ExtractSkillsKeywords ==
    /\ call.fn = "extract_skills_keywords"
    /\ ret = NoReturn
    /\ ret' = [fn |-> call.fn,
               value |-> extract_skills_keywords(documents, call.pdf_path,
                                                 call.skill_keywords)]
    /\ UNCHANGED <<candidates, job_descriptions, call, threads, documents,
                   outbox, app>>

(* summarize_all_pdfs_in_directory(directory_path) *)
SummarizeAllPdfsInDirectory ==
    /\ call.fn = "summarize_all_pdfs_in_directory"
    /\ ret = NoReturn
    /\ ret' = [fn |-> call.fn,
               value |-> summarize_all_pdfs_in_directory(documents)]
    /\ UNCHANGED <<candidates, job_descriptions, call, threads, documents,
                   outbox, app>>

NextExtract ==
    \/ ExtractContactInfo
    \/ SummarizePdf
    \/ ExtractSkillsKeywords
    \/ ExtractPlatformUrls
    \/ SummarizeAllPdfsInDirectory

SpecExtract ==
    InitExtract /\ [][NextExtract]_vars

---------------------------------------------------------------------------
(* Properties of the extractor. *)

(* a call of fn has returned *)
Returned(fn) ==
    ret # NoReturn /\ ret.fn = fn

(* the text of the file the call names *)
CallText ==
    extract_text_from_pdf(documents, call.pdf_path)

(* extract_contact_info has returned a record with the data fields *)
ContactReturned ==
    /\ Returned("extract_contact_info")
    /\ ~ret.raised
    /\ "emails" \in DOMAIN ret.value

InstitutionalKeywords ==
    { <<"u","n","i","-">>, <<"u","n","i","v","e","r","s","i","t","y">>, <<"e","d","u">>, <<"a","c",".">>, <<"i","n","f","o","r","m","a","t","i","k">>, <<"c","s",".">> }

Personal(email) ==
    \A k \in InstitutionalKeywords : ~str_in(k, lower(email))

EmailMatches ==
    findall(email_pattern, CallText)

PersonalMatches ==
    {e \in set_of(EmailMatches) : Personal(e)}

(* C13: when the text has a personal email match (one with none of the
   institutional substrings, case-insensitively), the returned email set is
   exactly the set of personal matches, with no institutional match in it;
   the text "Contact: jane.doe@gmail.com or j.doe@university.edu" yields
   exactly {"jane.doe@gmail.com"}. *)
C13_PersonalEmails ==
    ContactReturned =>
        /\ PersonalMatches # {} => ret.value.emails = PersonalMatches
        /\ CallText = <<"C","o","n","t","a","c","t",":"," ","j","a","n","e",".","d","o","e","@","g","m","a","i","l",".","c","o","m"," ","o","r"," ","j",".","d","o","e","@","u","n","i","v","e","r","s","i","t","y",".","e","d","u">>
             => ret.value.emails = { <<"j","a","n","e",".","d","o","e","@","g","m","a","i","l",".","c","o","m">> }

(* two personal matches and an institutional one: only the personal ones are
   returned *)
C13_Witness ==
    /\ ContactReturned
    /\ Cardinality(PersonalMatches) >= 2
    /\ set_of(EmailMatches) \ PersonalMatches # {}
    /\ ret.value.emails = PersonalMatches

(* C14: when the text has email matches and none is personal, the returned
   email set holds exactly one address, the first match in text order; when
   the text has no email match the set is empty. *)
C14_FirstInstitutionalEmail ==
    ContactReturned =>
        /\ (EmailMatches # << >> /\ PersonalMatches = {})
             => ret.value.emails = {EmailMatches[1]}
        /\ EmailMatches = << >> => ret.value.emails = {}

(* two different institutional matches and no personal one: only the first
   is returned *)
C14_Witness ==
    /\ ContactReturned
    /\ PersonalMatches = {}
    /\ Cardinality(set_of(EmailMatches)) >= 2
    /\ ret.value.emails = {EmailMatches[1]}

DigitCount(phone) ==
    Len(SelectSeq(phone, LAMBDA c : c \in digits))

(* C15: every phone string returned by extract_contact_info contains at
   least 10 digits, also when it starts with a '+' sign. *)
C15_TenDigits ==
    ContactReturned =>
        \A phone \in ret.value.phones : DigitCount(phone) >= 10

MobilePrefixes ==
    { <<"1","7","6">>, <<"1","7","7">>, <<"1","7","8">>, <<"1","7","9">>, <<"1","5","1">>, <<"1","5","2">>, <<"1","5","7">>,
      <<"1","5","9">> }

MobileLike(phone) ==
    \E prefix \in MobilePrefixes : str_in(prefix, phone)

(* the phone matches the length test accepts, whitespace normalized *)
AcceptedPhones ==
    {phone \in {cleaned_phone_of(m) :
                   m \in set_of(findall(phone_pattern, CallText))} :
        Len(SelectSeq(phone, LAMBDA c : c \notin {" ", "-", "."})) >= 10}

(* C16: the returned phone set is never a mix: if an accepted phone contains
   a mobile prefix, the result is exactly the set of all mobile-like accepted
   phones and holds no office-like phone; otherwise it is exactly the set of
   all accepted (office-like) phones. *)
C16_MobileOrOffice ==
    ContactReturned =>
        LET mobile == {phone \in AcceptedPhones : MobileLike(phone)}
        IN  /\ mobile # {} => ret.value.phones = mobile
            /\ mobile = {} => ret.value.phones = AcceptedPhones

(* a mobile-like and an office-like phone were accepted: only the mobile-like
   one is returned *)
C16_Witness ==
    /\ ContactReturned
    /\ \E phone \in AcceptedPhones : MobileLike(phone)
    /\ \E phone \in AcceptedPhones : ~MobileLike(phone)
    /\ ret.value.phones # {}
    /\ \A phone \in ret.value.phones : MobileLike(phone)

(* the names the signature matches of the text give *)
SignatureNames ==
    {name_of_match(m) :
        m \in UNION {set_of(findall(signature_patterns[p], lower(CallText))) :
                        p \in 1..Len(signature_patterns)}} \ {<< >>}

(* the first five lines of the text that give a name *)
NameLines ==
    LET lines == split_on(CallText, "\n")
    IN  {i \in 1..Len(lines) : i <= 5 /\ name_of_line(lines[i]) # << >>}

(* C17: the name comes from a signature match whenever one gives a name; the
   first five lines are consulted only otherwise, and the first of them that
   qualifies wins; when neither pass gives a name the record carries the
   empty string as name, and no error field. *)
C17_NamePrecedence ==
    ContactReturned =>
        /\ "error" \notin DOMAIN ret.value
        /\ SignatureNames # {} => ret.value.name \in SignatureNames
        /\ (SignatureNames = {} /\ NameLines # {}) =>
              ret.value.name
                = name_of_line(split_on(CallText, "\n")[
                      CHOOSE i \in NameLines : \A j \in NameLines : i <= j])
        /\ (SignatureNames = {} /\ NameLines = {}) => ret.value.name = << >>

(* the first line qualifies as a name and a signature further down gives
   another one: the signature wins *)
C17_Witness ==
    /\ ContactReturned
    /\ 1 \in NameLines
    /\ ret.value.name \in SignatureNames
    /\ ret.value.name # upper(name_of_line(split_on(CallText, "\n")[1]))

(* C18: extract_contact_info never raises: it returns either the full record
   (name, emails, phones, urls, file_path) or, when a fault occurs inside it,
   a record with an error string and the file_path it was given and none of
   the data fields. *)
C18_NeverRaises ==
    Returned("extract_contact_info") =>
        /\ ~ret.raised
        /\ ret.value.file_path = call.pdf_path
        /\ IF call.fault
           THEN /\ DOMAIN ret.value = {"error", "file_path"}
                /\ ret.value.error # << >>
           ELSE DOMAIN ret.value
                  = {"name", "emails", "phones", "urls", "file_path"}

(* a fault occurred and the error record came back *)
C18_Witness ==
    /\ Returned("extract_contact_info")
    /\ call.fault
    /\ ~ret.raised
    /\ DOMAIN ret.value = {"error", "file_path"}

(* the number of entries of the sequence that satisfy Test *)
CountEntries(entries, Test(_)) ==
    Cardinality({i \in 1..Len(entries) : Test(entries[i])})

IsErrorEntry(entry) ==
    "error" \in DOMAIN entry

IsBroken(file) ==
    file.broken

(* C19: summarizing a directory of N files of which exactly one is corrupt
   gives N-1 summaries and exactly 1 error record, and every file is
   reached. *)
C19_OneErrorRecord ==
    (Returned("summarize_all_pdfs_in_directory")
       /\ CountEntries(documents, IsBroken) = 1) =>
        /\ Len(ret.value.entries) = Len(documents)
        /\ CountEntries(ret.value.entries, IsErrorEntry) = 1
        /\ \A i \in 1..Len(documents) :
              documents[i].broken <=> IsErrorEntry(ret.value.entries[i])

(* summarize_pdf has returned a summary without an error *)
SummaryReturned ==
    /\ Returned("summarize_pdf")
    /\ "error" \notin DOMAIN ret.value

(* C20: the text_preview of a non-error summary is at most 503 characters
   long: the whole text when the text has at most 500 characters, else its
   first 500 characters followed by "...". *)
C20_TextPreview ==
    SummaryReturned =>
        /\ Len(ret.value.text_preview) <= 503
        /\ Len(CallText) <= 500 => ret.value.text_preview = CallText
        /\ Len(CallText) > 500 =>
              ret.value.text_preview = SubSeq(CallText, 1, 500) \o <<".",".",".">>

(* a text of more than 500 characters was cut to 503 *)
C20_Witness ==
    /\ SummaryReturned
    /\ Len(CallText) > 500
    /\ Len(ret.value.text_preview) = 503

(* the vocabulary the call of extract_skills_keywords searches for *)
CallVocabulary ==
    IF call.skill_keywords.none
    THEN default_skill_keywords
    ELSE call.skill_keywords.value

(* the positions of the vocabulary whose term, in lower case, occurs in the
   text in lower case *)
ContainedTerms ==
    {i \in 1..Len(CallVocabulary) :
        str_in(lower(CallVocabulary[i]), lower(CallText))}

(* C21: extract_skills_keywords returns exactly the vocabulary terms whose
   lower-cased form is a substring of the lower-cased document text, in
   vocabulary order: the k-th term returned is the k-th term of the
   vocabulary that passes the containment test, and there are no others. *)
C21_SkillsByContainment ==
    Returned("extract_skills_keywords") =>
        /\ Len(ret.value) = Cardinality(ContainedTerms)
        /\ \A k \in 1..Len(ret.value) :
              \E i \in ContainedTerms :
                 /\ Cardinality({j \in ContainedTerms : j < i}) = k - 1
                 /\ ret.value[k] = CallVocabulary[i]

(* a given vocabulary of which two terms were found, one of them written in
   another case than in the text, and one was not *)
C21_Witness ==
    /\ Returned("extract_skills_keywords")
    /\ ~call.skill_keywords.none
    /\ Len(ret.value) >= 2
    /\ Len(ret.value) < Len(CallVocabulary)
    /\ \E k \in 1..Len(ret.value) : ~str_in(ret.value[k], CallText)

Platforms ==
    {"google_scholar", "github", "linkedin"}

(* the substrings that define a platform *)
DefiningSubstrings(platform) ==
    CASE platform = "google_scholar" -> { <<"s","c","h","o","l","a","r",".","g","o","o","g","l","e",".","c","o","m">> }
      [] platform = "github" -> { <<"g","i","t","h","u","b",".","c","o","m","/">>, <<".","g","i","t","h","u","b",".","i","o">> }
      [] platform = "linkedin" -> { <<"l","i","n","k","e","d","i","n",".","c","o","m">> }

HasScheme(url) ==
    startswith(url, <<"h","t","t","p",":","/","/">>) \/ startswith(url, <<"h","t","t","p","s",":","/","/">>)

(* the strings the five patterns find in the text *)
FoundStrings ==
    UNION {set_of(findall(pattern, CallText)) :
              pattern \in {url_pattern, strict_url_pattern, scholar_pattern,
                           github_pattern, linkedin_pattern}}

ExampleText ==
    <<"g","i","t","h","u","b",".","c","o","m","/","a","l","i","c","e"," ","s","c","h","o","l","a","r",".","g","o","o","g","l","e",".","c","o","m","/","c","i","t","a","t","i","o","n","s","?","u","s","e","r","=","x","y","z">>

(* C22: every string in a platform bucket returned by extract_platform_urls
   starts with http:// or https://, being a string found in the text with
   such a scheme or "https://" followed by a string found without one, and
   contains, compared in lower case as the code compares, a defining
   substring of its platform; the buckets are sets, so no string is in a
   bucket twice; the text "github.com/alice
   scholar.google.com/citations?user=xyz" yields github =
   {"https://github.com/alice"}, the scholar URL in google_scholar and an
   empty linkedin bucket. *)
C22_PlatformBuckets ==
    Returned("extract_platform_urls") =>
        /\ \A platform \in Platforms :
              \A url \in ret.value[platform] :
                 /\ HasScheme(url)
                 /\ \/ url \in FoundStrings
                    \/ \E found \in FoundStrings :
                          ~HasScheme(found) /\ url = <<"h","t","t","p","s",":","/","/">> \o found
                 /\ \E substring \in DefiningSubstrings(platform) :
                       str_in(substring, lower(url))
        /\ (CallText = ExampleText /\ ~call.fault) =>
              /\ ret.value.github = { <<"h","t","t","p","s",":","/","/","g","i","t","h","u","b",".","c","o","m","/","a","l","i","c","e">> }
              /\ <<"h","t","t","p","s",":","/","/","s","c","h","o","l","a","r",".","g","o","o","g","l","e",".","c","o","m","/","c","i","t","a","t","i","o","n","s","?","u","s","e","r","=","x","y","z">>
                    \in ret.value.google_scholar
              /\ ret.value.linkedin = {}

(* the example text was processed: both urls stand in the text without a
   scheme and came back with https:// *)
C22_Witness ==
    /\ Returned("extract_platform_urls")
    /\ CallText = ExampleText
    /\ ret.value.github = { <<"h","t","t","p","s",":","/","/","g","i","t","h","u","b",".","c","o","m","/","a","l","i","c","e">> }
    /\ ret.value.google_scholar
         = { <<"h","t","t","p","s",":","/","/","s","c","h","o","l","a","r",".","g","o","o","g","l","e",".","c","o","m","/","c","i","t","a","t","i","o","n","s","?","u","s","e","r","=","x","y","z">> }

(* the url without a leading http:// or https:// *)
WithoutScheme(url) ==
    IF startswith(url, <<"h","t","t","p","s",":","/","/">>)
    THEN SubSeq(url, 9, Len(url))
    ELSE IF startswith(url, <<"h","t","t","p",":","/","/">>)
         THEN SubSeq(url, 8, Len(url))
         ELSE url

(* C28: no platform bucket returned by extract_platform_urls contains two
   different strings that differ only in their scheme (http:// or https://)
   and agree in host and path. *)
C28_OneEntryPerUrl ==
    Returned("extract_platform_urls") =>
        \A platform \in Platforms :
           \A url \in ret.value[platform], other \in ret.value[platform] :
              url # other => WithoutScheme(url) # WithoutScheme(other)
---------------------------------------------------------------------------
(* candidate_ranking_tool.py: the tool rank_candidates_for_job. *)

(* str.isdigit accepts characters beside '0'..'9'.  Two of them stand for
   the rest and are written by their code points: u0663 is ARABIC-INDIC DIGIT
   THREE, a decimal digit that int() reads as 3; u00b2 is SUPERSCRIPT TWO,
   a digit that is not decimal, which int() rejects. *)
decimal_chars ==
    digits \cup {"u0663"}

digit_chars ==
    decimal_chars \cup {"u00b2"}

(* str.isdigit *)
isdigit(s) ==
    /\ s # << >>
    /\ \A i \in 1..Len(s) : s[i] \in digit_chars

digit_value(c) ==
    IF c = "u0663"
    THEN 3
    ELSE CHOOSE d \in 0..9 : <<"0","1","2","3","4","5","6","7","8","9">>[d + 1] = c

RECURSIVE int_value(_)
int_value(s) ==
    IF s = << >>
    THEN 0
    ELSE 10 * int_value(SubSeq(s, 1, Len(s) - 1)) + digit_value(s[Len(s)])

(* int(s) for a string that passed isdigit: ValueError unless every
   character is a decimal digit *)
int_of(s) ==
    IF \A i \in 1..Len(s) : s[i] \in decimal_chars
    THEN [raised |-> FALSE, value |-> int_value(s)]
    ELSE [raised |-> TRUE,
          message |-> <<"i","n","v","a","l","i","d"," ","l","i","t","e","r","a","l"," ","f","o","r"," ","i","n","t","(",")"," ","w","i","t","h"," ","b","a","s","e"," ","1","0",":"," ","'">> \o s
                      \o <<"'">>]

(* str(n) for n >= 0 *)
RECURSIVE str_of_nat(_)
str_of_nat(n) ==
    IF n < 10
    THEN << <<"0","1","2","3","4","5","6","7","8","9">>[n + 1] >>
    ELSE str_of_nat(n \div 10) \o << <<"0","1","2","3","4","5","6","7","8","9">>[(n % 10) + 1] >>

(* the job the converted job_id selects *)
job_of_id(jobs, job_id) ==
    IF job_id.raised
    THEN [kind |-> "raised", message |-> job_id.message]
    ELSE IF 1 <= job_id.value /\ job_id.value <= Len(jobs)
         THEN [kind |-> "job", job_data |-> jobs[job_id.value]]
         ELSE [kind |-> "invalid"]

(* lines 259-269: the job the argument selects *)
job_choice(jobs, job_description) ==
    IF isdigit(job_description)
    THEN job_of_id(jobs, int_of(job_description))
    ELSE [kind |-> "job", job_data |-> jobs[1]]

(* lst[:n] *)
slice_to(lst, n) ==
    IF n >= 0
    THEN SubSeq(lst, 1, IF n < Len(lst) THEN n ELSE Len(lst))
    ELSE SubSeq(lst, 1, IF Len(lst) + n > 0 THEN Len(lst) + n ELSE 0)

(* ranker.format_candidate_summary(candidate_result, rank): the summary,
   taken as the values it shows *)
format_candidate_summary(candidate_result_, rank) ==
    [kind |-> "summary", rank |-> rank, candidate_result |-> candidate_result_]

(* "\n" + "-" * 50 + "\n" *)
separator ==
    [kind |-> "separator"]

(* the loop of lines 280-283 from position i (counted from 0) on: what it
   adds to result *)
RECURSIVE rendered_from(_, _, _)
rendered_from(shown, top_n, i) ==
    IF i >= Len(shown)
    THEN << >>
    ELSE << format_candidate_summary(shown[i + 1], i + 1) >>
         \o (IF i < top_n - 1 THEN << separator >> ELSE << >>)
         \o rendered_from(shown, top_n, i + 1)

(* lines 271-285: the header, taken as the values it shows, and the rendered
   candidates *)
ranking_text(job_data, top_n, ranked_candidates) ==
    [job |-> job_data,
     top_n |-> top_n,
     parts |-> rendered_from(slice_to(ranked_candidates, top_n), top_n, 0)]

(* what the tool returns for the job chosen *)
tool_result(self_candidates, jobs, choice, top_n) ==
    CASE choice.kind = "raised" ->
            [message |-> <<"E","r","r","o","r"," ","r","a","n","k","i","n","g"," ","c","a","n","d","i","d","a","t","e","s",":"," ">> \o choice.message]
      [] choice.kind = "invalid" ->
            [message |-> <<"I","n","v","a","l","i","d"," ","j","o","b"," ","I","D","."," ","P","l","e","a","s","e"," ","u","s","e"," ","1","-">>
                         \o str_of_nat(Len(jobs)) \o <<" ","f","o","r"," ","s","a","m","p","l","e"," ","j","o","b","s",".">>]
      [] choice.kind = "job" ->
            ranking_text(choice.job_data, top_n,
                         rank_candidates(self_candidates, choice.job_data))

rank_candidates_for_job(self_candidates, jobs, job_description, top_n) ==
    tool_result(self_candidates, jobs, job_choice(jobs, job_description),
                top_n)

---------------------------------------------------------------------------
(* reply_emails_tool.py.  service_fault: get_gmail_service or create_message
   raises; send_fault: service.users().messages().send(...).execute()
   raises.  Either exception has str(e) = message. *)

sender ==
    <<"c","a","n","d","i","d","a","t","e","d","e","m","o","4","7","0","@","g","m","a","i","l",".","c","o","m">>

(* create_message, taken as the values it carries *)
create_message(sender_, to, subject, message_text) ==
    [from |-> sender_, to |-> to, subject |-> subject, body |-> message_text]

(* send_email: raised when an exception leaves it, sent when the mail
   service accepted the message; the except clause of lines 49-50 prints the
   error and returns *)
send_email(subject, body, reciever, service_fault, send_fault, message) ==
    IF service_fault
    THEN [raised |-> TRUE, message |-> message, sent |-> FALSE]
    ELSE [raised |-> FALSE, message |-> << >>, sent |-> ~send_fault]

(* reply_email's own try block, given what send_email did *)
reply_email_result(sending) ==
    IF sending.raised
    THEN <<"F","a","i","l","e","d"," ","t","o"," ","s","e","n","d"," ","e","m","a","i","l",":"," ">> \o sending.message
    ELSE <<"E","m","a","i","l"," ","s","e","n","t"," ","s","u","c","c","e","s","s","f","u","l","l","y",".">>

reply_email(subject, body, receiver, service_fault, send_fault, message) ==
    reply_email_result(send_email(subject, body, receiver, service_fault,
                                  send_fault, message))

---------------------------------------------------------------------------
(* The tools and their operations. *)

(* job_description arguments: sample job IDs, IDs out of range, leading
   zeros, other digit characters, texts *)
JobArguments ==
    { <<"1">>, <<"2">>, <<"3">>, <<"4">>, <<"5">>, <<"0">>, <<"6">>, <<"0","1">>, <<"0","0","5">>,
      <<"1","0">>, <<"9","9","9">>, << >>, <<"t","w","o">>, <<"1","a">>, <<" ","1">>, <<"-","1">>, <<"1",".","0">>,
      <<"S","e","n","i","o","r"," ","D","a","t","a"," ","S","c","i","e","n","t","i","s","t">>,
      << "u0663" >>, << "u00b2" >>, << "1", "u00b2" >>, << "u0663", "0" >> }

TopNArguments ==
    (-1)..MaxTopN

RankToolCalls ==
    {[fn |-> "rank_candidates_for_job", job_description |-> j, top_n |-> n] :
        j \in JobArguments, n \in TopNArguments}

Receivers ==
    { <<"j","a","n","e",".","d","o","e","@","g","m","a","i","l",".","c","o","m">>, << >> }

ReplyCalls ==
    {[fn |-> "reply_email", subject |-> <<"Y","o","u","r"," ","a","p","p","l","i","c","a","t","i","o","n">>,
      body |-> <<"P","l","e","a","s","e"," ","s","e","n","d"," ","y","o","u","r"," ","t","r","a","n","s","c","r","i","p","t",".">>, receiver |-> r,
      service_fault |-> f, send_fault |-> g] :
        r \in Receivers, f \in BOOLEAN, g \in BOOLEAN}

mail_fault_message ==
    <<"H","t","t","p","E","r","r","o","r"," ","4","0","3">>

(* the module globals exist (ranker = CandidateRanker()) and a caller is
   about to use one of the tools *)
InitTools ==
    /\ candidates = CANDIDATES
    /\ job_descriptions = SAMPLE_JOB_DESCRIPTIONS
    /\ threads = << >>
    /\ documents = << >>
    /\ ret = NoReturn
    /\ outbox = << >>
    /\ app = NoApp
    /\ call \in RankToolCalls \cup ReplyCalls

(* rank_candidates_for_job(job_description, top_n) *)
RankCandidatesForJob ==
    /\ call.fn = "rank_candidates_for_job"
    /\ ret = NoReturn
    /\ ret' = [fn |-> call.fn,
               raised |-> FALSE,
               value |-> rank_candidates_for_job(candidates, job_descriptions,
                                                 call.job_description,
                                                 call.top_n)]
    /\ UNCHANGED <<candidates, job_descriptions, call, threads, documents,
                   outbox, app>>

(* reply_email(subject, body, receiver) *)
ReplyEmail ==
    /\ call.fn = "reply_email"
    /\ ret = NoReturn
    /\ LET sending == send_email(call.subject, call.body, call.receiver,
                                 call.service_fault, call.send_fault,
                                 mail_fault_message)
       IN  /\ outbox' = IF sending.sent
                        THEN Append(outbox,
                                    create_message(sender, call.receiver,
                                                   call.subject, call.body))
                        ELSE outbox
           /\ ret' = [fn |-> call.fn,
                      value |-> reply_email(call.subject, call.body,
                                            call.receiver, call.service_fault,
                                            call.send_fault,
                                            mail_fault_message)]
    /\ UNCHANGED <<candidates, job_descriptions, call, threads, documents,
                   app>>

NextTools ==
    \/ RankCandidatesForJob
    \/ ReplyEmail

SpecTools ==
    InitTools /\ [][NextTools]_vars

(* the tool returned a ranking for the job *)
IsRankingOf(job) ==
    /\ "parts" \in DOMAIN ret.value
    /\ ret.value.job = job

IsInvalidJobMessage ==
    /\ "message" \in DOMAIN ret.value
    /\ startswith(ret.value.message, <<"I","n","v","a","l","i","d"," ","j","o","b"," ","I","D">>)

AllAsciiDigits(s) ==
    /\ s # << >>
    /\ \A i \in 1..Len(s) : s[i] \in digits

NoDigitString(s) ==
    \/ s = << >>
    \/ \E i \in 1..Len(s) : s[i] \notin digit_chars

(* C23: rank_candidates_for_job never lets an exception escape; for an
   all-digit argument that denotes an ID in 1..(number of sample jobs) it
   ranks for that job, for an all-digit argument outside that range it
   returns the "Invalid job ID" message without a ranking, and for a
   non-digit argument it ranks for the first sample job.  An argument made of
   digit characters that are not all ASCII digits must at least get one of
   these outcomes. *)
C23_JobSelection ==
    Returned("rank_candidates_for_job") =>
        LET s == call.job_description
            n == Len(job_descriptions)
        IN  /\ ~ret.raised
            /\ (AllAsciiDigits(s) /\ int_value(s) \in 1..n)
                 => IsRankingOf(job_descriptions[int_value(s)])
            /\ (AllAsciiDigits(s) /\ int_value(s) \notin 1..n)
                 => IsInvalidJobMessage
            /\ NoDigitString(s) => IsRankingOf(job_descriptions[1])
            /\ \/ IsInvalidJobMessage
               \/ \E i \in 1..n : IsRankingOf(job_descriptions[i])

(* the summaries among the parts, in order *)
SummariesOf(parts) ==
    SelectSeq(parts, LAMBDA part : part.kind = "summary")

RenderedAsClaimed(parts, summaries, ranked, count) ==
    /\ Len(summaries) = count
    /\ [k \in 1..Len(summaries) |-> summaries[k].rank]
         = [k \in 1..count |-> k]
    /\ [k \in 1..Len(summaries) |-> summaries[k].candidate_result]
         = SubSeq(ranked, 1, count)
    /\ \A p \in 1..Len(parts) : parts[p].kind = "summary" <=> p % 2 = 1
    /\ parts # << >> => parts[Len(parts)].kind = "summary"

(* C29: for a valid job and top_n >= 0 the tool renders exactly
   min(top_n, number of candidates) summaries, numbered from 1 in ranking
   order, with a separator between two consecutive summaries and nowhere
   else, in particular not after the last summary. *)
C29_RenderedSummaries ==
    (Returned("rank_candidates_for_job") /\ "parts" \in DOMAIN ret.value
       /\ call.top_n >= 0) =>
        RenderedAsClaimed(ret.value.parts, SummariesOf(ret.value.parts),
                          rank_candidates(candidates, ret.value.job),
                          IF call.top_n < Len(candidates)
                          THEN call.top_n ELSE Len(candidates))

(* C24: when the email was not sent, reply_email returns the "Failed to send
   email" message and not "Email sent successfully." *)
C24_FailureReported ==
    (Returned("reply_email") /\ outbox = << >>) =>
        /\ startswith(ret.value, <<"F","a","i","l","e","d"," ","t","o"," ","s","e","n","d"," ","e","m","a","i","l">>)
        /\ ret.value # <<"E","m","a","i","l"," ","s","e","n","t"," ","s","u","c","c","e","s","s","f","u","l","l","y",".">>
---------------------------------------------------------------------------
(* main.py: CandidateRankingAgent.  The environment of setup_model is what
   os.getenv and the three providers do:
     hf_token       the value of HF_TOKEN (None when it is not set)
     hf_model       InferenceClientModel(...) returns (FALSE: it raises)
     hf_invoke      what self.model.invoke("Hello", max_tokens=5) does
     lite_model     LiteLLMModel(...) returns (FALSE: it raises)
     transformers_model   TransformersModel(...) returns (FALSE: it raises)
   An exception is an Exception; each provider is named by its class. *)

TestResponses ==
    {[raised |-> TRUE, none |-> FALSE, value |-> << >>],
     [raised |-> FALSE, none |-> TRUE, value |-> << >>],
     [raised |-> FALSE, none |-> FALSE, value |-> << >>],
     [raised |-> FALSE, none |-> FALSE, value |-> <<"H","e","l","l","o","!"," ","H","o","w"," ","c","a","n"," ","I">>],
     [raised |-> FALSE, none |-> FALSE, value |-> <<"E","r","r","o","r"," ","4","2","9">>],
     [raised |-> FALSE, none |-> FALSE, value |-> <<"q","u","o","t","a"," ","e","r","r","o","r">>]}

Environments ==
    [hf_token : {None, Some(<< >>), Some(<<"h","f","_","a","b","c">>)},
     hf_model : BOOLEAN,
     hf_invoke : TestResponses,
     lite_model : BOOLEAN,
     transformers_model : BOOLEAN]

(* if hf_token: *)
token_given(hf_token) ==
    /\ ~hf_token.none
    /\ hf_token.value # << >>

(* line 75: not test_response or "error" in str(test_response).lower() *)
hf_test_failed(test_response) ==
    \/ test_response.none
    \/ test_response.value = << >>
    \/ str_in(<<"e","r","r","o","r">>, lower(test_response.value))

(* lines 64-82: the HuggingFace API.  attempted lists the providers whose
   constructor was called, model is self.model, returned says that
   setup_model has returned *)
hf_step(env) ==
    IF ~token_given(env.hf_token)
    THEN [attempted |-> << >>, model |-> None, returned |-> FALSE]
    ELSE IF ~env.hf_model
    THEN [attempted |-> << "InferenceClientModel" >>, model |-> None,
          returned |-> FALSE]
    ELSE [attempted |-> << "InferenceClientModel" >>,
          model |-> Some("InferenceClientModel"),
          returned |-> /\ ~env.hf_invoke.raised
                       /\ ~hf_test_failed(env.hf_invoke)]

(* lines 84-173: LiteLLM *)
lite_step(env, before) ==
    IF before.returned
    THEN before
    ELSE [attempted |-> Append(before.attempted, "LiteLLMModel"),
          model |-> IF env.lite_model
                    THEN Some("LiteLLMModel") ELSE before.model,
          returned |-> env.lite_model]

(* transformers_step that does not look whether setup_model has returned *)
transformers_step_always(env, before) ==
    [attempted |-> Append(before.attempted, "TransformersModel"),
     model |-> IF env.transformers_model
               THEN Some("TransformersModel") ELSE before.model,
     returned |-> env.transformers_model]

(* lines 175-185: local Transformers *)
transformers_step(env, before) ==
    IF before.returned
    THEN before
    ELSE [attempted |-> Append(before.attempted, "TransformersModel"),
          model |-> IF env.transformers_model
                    THEN Some("TransformersModel") ELSE before.model,
          returned |-> env.transformers_model]

(* line 187: sys.exit(1) when no provider made setup_model return *)
exit_unless_returned(providers) ==
    [attempted |-> providers.attempted,
     model |-> providers.model,
     returned |-> providers.returned,
     exit_status |-> IF providers.returned THEN None ELSE Some(1)]

setup_model(env) ==
    exit_unless_returned(transformers_step(env, lite_step(env, hf_step(env))))

(* __init__ (lines 53-57) up to the end of setup_model; pc is "session" when
   the agent is ready for run_interactive_session and "exited" when the
   process has exited *)
agent_after_setup(env, setup) ==
    [pc |-> IF setup.returned THEN "session" ELSE "exited",
     env |-> env,
     model |-> setup.model,
     attempted |-> setup.attempted,
     exit_status |-> setup.exit_status,
     log |-> << >>,
     agent_runs |-> << >>,
     reported |-> 0]

---------------------------------------------------------------------------
(* run_interactive_session.  One turn of the loop reads an event: a line
   from input() or an exception input() raises; when the agent is run the
   outcome says what self.agent.run does. *)

InputLines ==
    { <<"q","u","i","t">>, <<" ","E","x","i","t"," ">>, <<"Q">>, << >>, <<" "," ">>,
      <<"r","a","n","k"," ","c","a","n","d","i","d","a","t","e","s"," ","f","o","r"," ","j","o","b"," ","1">>, <<"q","u","i","t"," ","n","o","w">> }

InputEvents ==
    {[kind |-> "input", text |-> t] : t \in InputLines}
      \cup {[kind |-> "KeyboardInterrupt", text |-> << >>],
            [kind |-> "EOFError", text |-> << >>]}

AgentOutcomes ==
    {"returns", "Exception", "KeyboardInterrupt"}

(* after_exception that leaves the loop on every exception *)
after_exception_break(a, exception) ==
    [a EXCEPT !.pc = "ended"]

(* the except clauses of lines 271-276 *)
after_exception(a, exception) ==
    IF exception = "KeyboardInterrupt"
    THEN [a EXCEPT !.pc = "ended"]
    ELSE [a EXCEPT !.reported = a.reported + 1]

(* line 266 and what follows it *)
run_agent(a, user_input, outcome) ==
    IF outcome = "returns"
    THEN [a EXCEPT !.agent_runs = Append(a.agent_runs, user_input)]
    ELSE after_exception([a EXCEPT !.agent_runs =
                                       Append(a.agent_runs, user_input)],
                         outcome)

(* lines 254-269 for the stripped line *)
handle_input(a, user_input, outcome) ==
    IF lower(user_input) \in { <<"q","u","i","t">>, <<"e","x","i","t">>, <<"q">> }
    THEN [a EXCEPT !.pc = "ended"]
    ELSE IF user_input = << >>
    THEN a
    ELSE run_agent(a, user_input, outcome)

(* one turn of the loop of lines 250-276 *)
session_turn(a, event, outcome) ==
    IF event.kind = "input"
    THEN handle_input(a, strip(event.text), outcome)
    ELSE after_exception(a, IF event.kind = "KeyboardInterrupt"
                            THEN "KeyboardInterrupt" ELSE "Exception")

(* the turn's event, and the agent's outcome when the agent was run, added
   to the history of the session *)
logged(before, after, event, outcome) ==
    [after EXCEPT !.log =
        Append(before.log,
               [event |-> event,
                outcome |-> IF after.agent_runs # before.agent_runs
                            THEN outcome ELSE "none"])]

(* main() is about to construct the agent *)
InitMain ==
    /\ candidates = CANDIDATES
    /\ job_descriptions = SAMPLE_JOB_DESCRIPTIONS
    /\ call = [fn |-> "main"]
    /\ ret = NoReturn
    /\ threads = << >>
    /\ documents = << >>
    /\ outbox = << >>
    /\ app = NoApp

(* CandidateRankingAgent(): __init__ runs setup_model *)
SetupModel ==
    /\ app = NoApp
    /\ \E env \in Environments :
          app' = agent_after_setup(env, setup_model(env))
    /\ UNCHANGED <<candidates, job_descriptions, call, ret, threads,
                   documents, outbox>>

(* one turn of the loop of run_interactive_session *)
SessionTurn ==
    /\ app.pc = "session"
    /\ Len(app.log) < MaxRequests
    /\ \E event \in InputEvents, outcome \in AgentOutcomes :
          app' = logged(app, session_turn(app, event, outcome), event,
                        outcome)
    /\ UNCHANGED <<candidates, job_descriptions, call, ret, threads,
                   documents, outbox>>

NextMain ==
    \/ SetupModel
    \/ SessionTurn

SpecMain ==
    InitMain /\ [][NextMain]_vars

---------------------------------------------------------------------------

PriorityOrder ==
    << "InferenceClientModel", "LiteLLMModel", "TransformersModel" >>

(* the provider was skipped: only the HuggingFace API, without a token *)
Skipped(env, provider) ==
    /\ provider = "InferenceClientModel"
    /\ env.hf_token \in {None, Some(<< >>)}

(* the provider works in the environment: its constructor returns and, for
   the HuggingFace API, the test call answers with a non-empty text that
   does not hold "error" in any letter case *)
Works(env, provider) ==
    CASE provider = "InferenceClientModel" ->
            /\ env.hf_model
            /\ ~env.hf_invoke.raised
            /\ ~env.hf_invoke.none
            /\ env.hf_invoke.value # << >>
            /\ ~str_in(<<"e","r","r","o","r">>, lower(env.hf_invoke.value))
      [] provider = "LiteLLMModel" -> env.lite_model
      [] provider = "TransformersModel" -> env.transformers_model

(* C25: setup_model attempts the providers in the order HuggingFace API,
   LiteLLM, Transformers; a provider is attempted exactly when it is not
   skipped and every earlier one was skipped or failed; when a provider
   succeeds setup_model returns with self.model set to that provider's model;
   and the process exits, with status 1, if and only if every attempted
   provider failed. *)
C25_ProviderPriority ==
    app.pc # "none" =>
        LET env == app.env
            ShouldAttempt(k) ==
                /\ ~Skipped(env, PriorityOrder[k])
                /\ \A j \in 1..(k - 1) :
                      \/ Skipped(env, PriorityOrder[j])
                      \/ ~Works(env, PriorityOrder[j])
        IN  /\ app.attempted
                 = SelectSeq(PriorityOrder,
                             LAMBDA provider :
                                \E k \in 1..3 : /\ PriorityOrder[k] = provider
                                                /\ ShouldAttempt(k))
            /\ \A k \in 1..Len(app.attempted) :
                  Works(env, app.attempted[k])
                     => /\ k = Len(app.attempted)
                        /\ app.model = Some(app.attempted[k])
                        /\ app.exit_status = None
            /\ (app.pc = "exited" /\ app.exit_status = Some(1))
                 <=> \A k \in 1..Len(app.attempted) :
                        ~Works(env, app.attempted[k])
            /\ app.pc = "exited" <=> app.exit_status # None

(* the HuggingFace API answered its test with an error text, LiteLLM raised
   and Transformers was set up *)
C25_Witness ==
    /\ app.pc = "session"
    /\ app.attempted = PriorityOrder
    /\ app.env.hf_model
    /\ app.env.hf_invoke.value = <<"E","r","r","o","r"," ","4","2","9">>
    /\ app.model = Some("TransformersModel")

(* the line read in the last turn, as the loop sees it *)
LastEvent(a) ==
    a.log[Len(a.log)].event

LastOutcome(a) ==
    a.log[Len(a.log)].outcome

IsQuitLine(event) ==
    /\ event.kind = "input"
    /\ \E w \in { <<"q","u","i","t">>, <<"e","x","i","t">>, <<"q">> } : lower(strip(event.text)) = w

(* C26: in a turn of the session loop, the loop ends only if the line read
   is quit, exit or q (trimmed, in any letter case) or a keyboard interrupt
   arrived, while reading or while the agent ran; a line that is empty after
   trimming does not invoke the agent; and when the agent is invoked and
   raises an exception, the error is reported and the loop goes on to read
   the next request. *)
C26_SessionLoop ==
    [][(app.pc = "session" /\ app'.log # app.log) =>
          LET event == LastEvent(app')
              invoked == app'.agent_runs # app.agent_runs
          IN  /\ app'.pc = "ended"
                   => \/ IsQuitLine(event)
                      \/ event.kind = "KeyboardInterrupt"
                      \/ invoked /\ LastOutcome(app') = "KeyboardInterrupt"
              /\ app'.pc \in {"session", "ended"}
              /\ (event.kind = "input" /\ strip(event.text) = << >>)
                   => ~invoked
              /\ (invoked /\ LastOutcome(app') = "Exception")
                   => /\ app'.pc = "session"
                      /\ app'.reported = app.reported + 1]_vars

(* the agent raised an exception on the first request and the session went
   on: an empty line was read next, without a second run of the agent *)
C26_Witness ==
    /\ app.pc = "session"
    /\ Len(app.log) = 2
    /\ app.log[1].outcome = "Exception"
    /\ Len(app.agent_runs) = 1
    /\ app.reported = 1
    /\ app.log[2].event = [kind |-> "input", text |-> <<" "," ">>]
---------------------------------------------------------------------------
(* summarize_pdf while the file at pdf_path changes.  The method opens the
   file three times: extract_text_from_pdf (line 245), and once more inside
   each of extract_contact_info (line 85) and extract_skills_keywords
   (line 222).  Between two of these the file system may hold another
   version of the file.  threads[1] holds the locals of the invocation. *)

summarized_path ==
    <<".","/","r","e","s","u","m","e","s","/","c","v",".","p","d","f">>

(* the versions of the file: two resumes, a file without pages and a file
   fitz cannot open *)
Versions ==
    { good_file(summarized_path,
                << <<"J","a","n","e"," ","D","o","e","\n","j","a","n","e",".","d","o","e","@","g","m","a","i","l",".","c","o","m","\n","P","y","t","h","o","n"," ","a","n","d"," ","S","Q","L">> >>),
      good_file(summarized_path,
                << <<"J","o","h","n"," ","S","m","i","t","h","\n","j","o","h","n","@","g","m","a","i","l",".","c","o","m"," ","+","4","9"," ","1","7","6"," ","1","2","3","4"," ","5","6","7","8","\n","J","a","v","a">> >>),
      good_file(summarized_path, << >>),
      broken_file(summarized_path, <<"c","a","n","n","o","t"," ","o","p","e","n"," ","b","r","o","k","e","n"," ","d","o","c","u","m","e","n","t">>) }

InitReplace ==
    /\ candidates = CANDIDATES
    /\ job_descriptions = SAMPLE_JOB_DESCRIPTIONS
    /\ call = [fn |-> "summarize_pdf", pdf_path |-> summarized_path,
               fault |-> "none"]
    /\ ret = NoReturn
    /\ outbox = << >>
    /\ app = NoApp
    /\ \E version \in Versions : documents = << version >>
    /\ threads = << [pc |-> "text"] >>

(* line 245: text = self.extract_text_from_pdf(pdf_path) *)
SummarizeText ==
    /\ threads[1].pc = "text"
    /\ threads' = << [pc |-> "contact_info",
                      text |-> extract_text_from_pdf(documents,
                                                     call.pdf_path)] >>
    /\ UNCHANGED <<candidates, job_descriptions, call, ret, documents,
                   outbox, app>>

(* line 246: contact_info = self.extract_contact_info(pdf_path) *)
SummarizeContactInfo ==
    /\ threads[1].pc = "contact_info"
    /\ threads' = << [pc |-> "skills",
                      text |-> threads[1].text,
                      contact_info |->
                          extract_contact_info(documents, call.pdf_path,
                                               FALSE, fault_message)] >>
    /\ UNCHANGED <<candidates, job_descriptions, call, ret, documents,
                   outbox, app>>

(* line 247: skills = self.extract_skills_keywords(pdf_path) *)
SummarizeSkills ==
    /\ threads[1].pc = "skills"
    /\ threads' = << [pc |-> "return",
                      text |-> threads[1].text,
                      contact_info |-> threads[1].contact_info,
                      skills |-> extract_skills_keywords(documents,
                                                         call.pdf_path,
                                                         None)] >>
    /\ UNCHANGED <<candidates, job_descriptions, call, ret, documents,
                   outbox, app>>

(* lines 249-266: the summary is built from the locals and returned *)
SummarizeReturn ==
    /\ threads[1].pc = "return"
    /\ ret = NoReturn
    /\ ret' = [fn |-> call.fn,
               value |-> summary_of(call.pdf_path, threads[1].text,
                                    threads[1].contact_info,
                                    threads[1].skills, call.fault,
                                    fault_message)]
    /\ threads' = << [pc |-> "done"] >>
    /\ UNCHANGED <<candidates, job_descriptions, call, documents, outbox,
                   app>>

(* the environment puts another version of the file at pdf_path *)
ReplaceDocument ==
    /\ ret = NoReturn
    /\ \E version \in Versions :
          /\ documents # << version >>
          /\ documents' = << version >>
    /\ UNCHANGED <<candidates, job_descriptions, call, ret, threads, outbox,
                   app>>

NextReplace ==
    \/ SummarizeText
    \/ SummarizeContactInfo
    \/ SummarizeSkills
    \/ SummarizeReturn
    \/ ReplaceDocument

SpecReplace ==
    InitReplace /\ [][NextReplace]_vars

(* C30: a summary summarize_pdf returns is the summary of one version of the
   document: its contact info, skills, statistics and preview all come from
   the text of the same version, whatever happened to the file while the
   summary was computed. *)
C30_OneTextPerSummary ==
    Returned("summarize_pdf") =>
        \E version \in Versions :
            ret.value = summarize_pdf(<< version >>, call.pdf_path, "none",
                                      fault_message)
=============================================================================
